---- MODULE Spec2Model ----
(***************************************************************************)
(* A model of the editor engine of r3bl-rs-utils (tui crate):              *)
(*   EditorEngine::apply_event and EditorEngine::render_engine together    *)
(*   with the render helpers of editor_engine_api.rs and the engine state  *)
(*   of editor_engine.rs; the RenderPipeline they push into; and the       *)
(*   inline element parsers of md_parser/parser_element.rs.                *)
(*                                                                         *)
(* A UnicodeString is a sequence of grapheme clusters (one-character       *)
(* strings); a Position is [col_index, row_index]; a Size is               *)
(* [col_count, row_count]; an Option<Style> is a string, "None" for None.  *)
(***************************************************************************)
EXTENDS Integers, Sequences, FiniteSets, TLC

VARIABLES
    editor_buffer,   \* the EditorBuffer the caller holds (args.editor_buffer)
    editor_engine,   \* the EditorEngine (current_box, config_options, syntax_set)
    has_focus,       \* component_registry.has_focus: the FlexBoxId holding focus
    response,        \* the value apply_event returned, until the caller handles it
    pipeline,        \* the RenderPipeline render_engine returned, until it is painted
    installed,       \* the buffer of the last Applied response the caller installed
    call,            \* the last call made: its name and its arguments
    pushes,          \* the pushes a pipeline user made since render_pipeline!(), in order
    input,           \* the markdown text handed to the inline parser
    remainder,       \* the part of input still to be parsed
    fragments,       \* the MdLineFragments parsed off input so far, in order
    fn_wrapper,      \* a generated fn wrapper: its RwLock and the threads that use it
    launcher         \* the main loop of the demo launcher

vars == <<editor_buffer, editor_engine, has_focus, response, pipeline, installed, call, pushes, input, remainder,
          fragments, fn_wrapper, launcher>>

\* ------------------------------------------------------------------ bounds

MaxLines == 2
MaxLineLen == 1
MaxRenderCol == 4
MaxPushes == 3
MaxBodyLen == 2

\* The threads that share one fn wrapper.
MaxThreads == 3

\* The readline events the demo launcher is followed through.
MaxEvents == 2

\* ------------------------------------------------------------------ helpers

Min(a, b) == IF a < b THEN a ELSE b

Max(a, b) == IF a > b THEN a ELSE b

\* ChUnit subtraction saturates at zero.
Monus(a, b) == IF a > b THEN a - b ELSE 0

Range(s) == { s[i] : i \in 1..Len(s) }

\* The concatenation of the sequences of seqs.
RECURSIVE Flatten(_)
Flatten(seqs) == IF seqs = <<>> THEN <<>> ELSE Head(seqs) \o Flatten(Tail(seqs))

position(col, row) == [col_index |-> col, row_index |-> row]

size(cols, rows) == [col_count |-> cols, row_count |-> rows]

\* ------------------------------------------------------------------ layout

EditorId == 1

OtherId == 2

\* FlexBox::default() / EditorEngineFlexBox::default().
DefaultEditorEngineFlexBox ==
    [ id |-> 0,
      style_adjusted_origin_pos |-> position(0, 0),
      style_adjusted_bounds_size |-> size(0, 0),
      maybe_computed_style |-> "None" ]

\* A FlexBox carries more than the four fields the engine keeps.
FlexBox(id, origin, bounds, style) ==
    [ id |-> id,
      origin_pos |-> position(Monus(origin.col_index, 1), Monus(origin.row_index, 1)),
      bounds_size |-> size(bounds.col_count + 2, bounds.row_count + 2),
      style_adjusted_origin_pos |-> origin,
      style_adjusted_bounds_size |-> bounds,
      computed_style |-> style ]

\* The box is snapshot from the unadjusted origin and bounds.
EditorEngineFlexBox_from_unadjusted(flex_box) ==
    [ id |-> flex_box.id,
      style_adjusted_origin_pos |-> flex_box.origin_pos,
      style_adjusted_bounds_size |-> flex_box.bounds_size,
      maybe_computed_style |-> flex_box.computed_style ]

\* impl From<EditorEngineFlexBox> for FlexBox, impl From<PartialFlexBox> for
\* FlexBox: the fields not named are those of FlexBox::default().
FlexBox_from(engine_box) ==
    [ id |-> engine_box.id,
      origin_pos |-> position(0, 0),
      bounds_size |-> size(0, 0),
      style_adjusted_origin_pos |-> engine_box.style_adjusted_origin_pos,
      style_adjusted_bounds_size |-> engine_box.style_adjusted_bounds_size,
      computed_style |-> engine_box.maybe_computed_style ]

\* impl From<&FlexBox> for EditorEngineFlexBox, impl From<&FlexBox> for
\* PartialFlexBox
EditorEngineFlexBox_from(flex_box) ==
    [ id |-> flex_box.id,
      style_adjusted_origin_pos |-> flex_box.style_adjusted_origin_pos,
      style_adjusted_bounds_size |-> flex_box.style_adjusted_bounds_size,
      maybe_computed_style |-> flex_box.computed_style ]

get_computed_style(current_box) == current_box.maybe_computed_style

viewport_width(engine) == engine.current_box.style_adjusted_bounds_size.col_count

\* The height read from the width field.
viewport_height_from_width(engine) ==
    engine.current_box.style_adjusted_bounds_size.col_count

viewport_height(engine) == engine.current_box.style_adjusted_bounds_size.row_count

\* EditorEngine::new(config_options); the syntax set is the set of file
\* extensions it has a SyntaxReference for.
SyntaxSetExtensions == {"md", "rs"}

EditorEngine_new(config_options) ==
    [ current_box |-> DefaultEditorEngineFlexBox,
      config_options |-> config_options,
      syntax_set |-> SyntaxSetExtensions ]

DefaultConfigOptions == [multiline |-> TRUE, syntax_highlight |-> TRUE]

\* ------------------------------------------------------------------ buffer

EditorBuffer_default(file_extension) ==
    [ lines |-> <<>>,
      caret |-> position(0, 0),
      scroll_offset |-> position(0, 0),
      file_extension |-> file_extension ]

\* true iff no lines or a single empty line
is_empty(buffer) == buffer.lines = <<>> \/ buffer.lines = << <<>> >>

get_lines(buffer) == buffer.lines

get_scroll_offset(buffer) == buffer.scroll_offset

get_file_extension(buffer) == buffer.file_extension

\* CaretKind::Raw is the caret relative to the viewport, Absolute the caret
\* in the buffer.
get_caret(buffer, kind) ==
    IF kind = "Raw"
    THEN position(Monus(buffer.caret.col_index, buffer.scroll_offset.col_index),
                  Monus(buffer.caret.row_index, buffer.scroll_offset.row_index))
    ELSE buffer.caret

line_at_caret(buffer) ==
    IF buffer.caret.row_index < Len(buffer.lines)
    THEN buffer.lines[buffer.caret.row_index + 1]
    ELSE <<>>

\* The grapheme cluster under the caret, or None past the end of the line.
string_at_caret(buffer) ==
    LET line == line_at_caret(buffer)
        col == buffer.caret.col_index
    IN  IF col < Len(line)
        THEN [some |-> TRUE, string |-> <<line[col + 1]>>]
        ELSE [some |-> FALSE]

\* UnicodeString::clip(start, max): the graphemes with index in
\* [start, start + max).
clip(line, start_col, max_cols) ==
    SubSeq(line, start_col + 1, Min(Len(line), start_col + max_cols))

\* ------------------------------------------------------------------ events

Graphemes == {"a"}

\* The InputEvents of the model: keys the editor understands, a key it does
\* not, and the non-keyboard events.
EditorKeys == Graphemes \cup {"Enter", "Backspace", "Left", "Right", "Up", "Down"}

InputEvents ==
    { [kind |-> "Keyboard", key |-> k] : k \in EditorKeys \cup {"F1"} }
        \cup { [kind |-> "Resize"], [kind |-> "Mouse"] }

\* EditorEvent::try_from(&InputEvent): Ok(editor_event) or Err.
EditorEvent_try_from(input_event) ==
    IF input_event.kind # "Keyboard" THEN [ok |-> FALSE]
    ELSE IF input_event.key \in Graphemes
         THEN [ok |-> TRUE, event |-> [kind |-> "InsertChar", ch |-> input_event.key]]
    ELSE IF input_event.key = "Enter"
         THEN [ok |-> TRUE, event |-> [kind |-> "InsertNewLine"]]
    ELSE IF input_event.key = "Backspace"
         THEN [ok |-> TRUE, event |-> [kind |-> "Backspace"]]
    ELSE IF input_event.key \in {"Left", "Right", "Up", "Down"}
         THEN [ok |-> TRUE, event |-> [kind |-> "MoveCaret", dir |-> input_event.key]]
    ELSE [ok |-> FALSE]

\* The lines a mutation works on: a buffer without lines gets its first line.
lines_for_edit(buffer) == IF buffer.lines = <<>> THEN << <<>> >> ELSE buffer.lines

insert_char(buffer, ch) ==
    LET lines == lines_for_edit(buffer)
        row == buffer.caret.row_index
        col == buffer.caret.col_index
        line == lines[row + 1]
        new_line == SubSeq(line, 1, col) \o <<ch>> \o SubSeq(line, col + 1, Len(line))
    IN  [buffer EXCEPT !.lines = [lines EXCEPT ![row + 1] = new_line],
                       !.caret = position(col + 1, row)]

insert_new_line(buffer) ==
    LET lines == lines_for_edit(buffer)
        row == buffer.caret.row_index
        col == buffer.caret.col_index
        line == lines[row + 1]
        left == SubSeq(line, 1, col)
        right == SubSeq(line, col + 1, Len(line))
    IN  [buffer EXCEPT !.lines = SubSeq(lines, 1, row) \o <<left, right>>
                                     \o SubSeq(lines, row + 2, Len(lines)),
                       !.caret = position(0, row + 1)]

backspace(buffer) ==
    LET lines == buffer.lines
        row == buffer.caret.row_index
        col == buffer.caret.col_index
    IN  IF lines = <<>> THEN buffer
        ELSE IF col > 0
        THEN LET line == lines[row + 1]
                 new_line == SubSeq(line, 1, col - 1) \o SubSeq(line, col + 1, Len(line))
             IN  [buffer EXCEPT !.lines = [lines EXCEPT ![row + 1] = new_line],
                                !.caret = position(col - 1, row)]
        ELSE IF row > 0
        THEN LET prev == lines[row]
             IN  [buffer EXCEPT !.lines = SubSeq(lines, 1, row - 1)
                                              \o <<prev \o lines[row + 1]>>
                                              \o SubSeq(lines, row + 2, Len(lines)),
                                !.caret = position(Len(prev), row - 1)]
        ELSE buffer

\* Up and Down keep the column, whatever the length of the line they land on.
move_caret_unclamped(buffer, dir) ==
    LET lines == buffer.lines
        row == buffer.caret.row_index
        col == buffer.caret.col_index
    IN  IF lines = <<>> THEN buffer
        ELSE IF dir = "Left"
        THEN [buffer EXCEPT !.caret = position(Monus(col, 1), row)]
        ELSE IF dir = "Right"
        THEN [buffer EXCEPT !.caret = position(Min(col + 1, Len(lines[row + 1])), row)]
        ELSE IF dir = "Up"
        THEN [buffer EXCEPT !.caret = position(col, Monus(row, 1))]
        ELSE [buffer EXCEPT !.caret = position(col, Min(row + 1, Len(lines) - 1))]

move_caret(buffer, dir) ==
    LET lines == buffer.lines
        row == buffer.caret.row_index
        col == buffer.caret.col_index
    IN  IF lines = <<>> THEN buffer
        ELSE IF dir = "Left"
        THEN IF col > 0 THEN [buffer EXCEPT !.caret = position(col - 1, row)]
             ELSE IF row > 0
                  THEN [buffer EXCEPT !.caret = position(Len(lines[row]), row - 1)]
                  ELSE buffer
        ELSE IF dir = "Right"
        THEN IF col < Len(lines[row + 1])
             THEN [buffer EXCEPT !.caret = position(col + 1, row)]
             ELSE IF row + 1 < Len(lines)
                  THEN [buffer EXCEPT !.caret = position(0, row + 1)]
                  ELSE buffer
        ELSE IF dir = "Up"
        THEN IF row > 0
             THEN [buffer EXCEPT !.caret = position(Min(col, Len(lines[row])), row - 1)]
             ELSE buffer
        ELSE IF row + 1 < Len(lines)
             THEN [buffer EXCEPT !.caret = position(Min(col, Len(lines[row + 2])), row + 1)]
             ELSE buffer

\* One axis of the scroll offset after the caret moved: the smallest change
\* that brings the caret back into [scroll, scroll + viewport).
scroll_axis(scroll, caret, viewport) ==
    IF caret < scroll THEN caret
    ELSE IF caret >= scroll + viewport THEN Min(caret, Monus(caret + 1, viewport))
    ELSE scroll

validate_scroll(buffer, engine) ==
    [buffer EXCEPT !.scroll_offset =
        position(scroll_axis(buffer.scroll_offset.col_index, buffer.caret.col_index,
                             viewport_width(engine)),
                 scroll_axis(buffer.scroll_offset.row_index, buffer.caret.row_index,
                             viewport_height(engine)))]

\* EditorEvent::apply_editor_event(engine, &mut buffer, event, ..)
apply_editor_event(engine, buffer, editor_event) ==
    LET mutated ==
            IF editor_event.kind = "InsertChar" THEN insert_char(buffer, editor_event.ch)
            ELSE IF editor_event.kind = "InsertNewLine"
                 THEN IF engine.config_options.multiline
                      THEN insert_new_line(buffer) ELSE buffer
            ELSE IF editor_event.kind = "Backspace" THEN backspace(buffer)
            ELSE move_caret(buffer, editor_event.dir)
    IN  validate_scroll(mutated, engine)

\* ------------------------------------------------------------------ apply_event

NoResponse == [kind |-> "None"]

\* The event is applied to the caller's buffer itself, not to a clone.
apply_event_in_place(buffer, engine, input_event) ==
    LET converted == EditorEvent_try_from(input_event)
    IN  IF converted.ok
        THEN LET new_editor_buffer == apply_editor_event(engine, buffer, converted.event)
             IN  [ editor_buffer |-> new_editor_buffer,
                   response |-> [kind |-> "Applied", result |-> "Ok",
                                 buffer |-> new_editor_buffer] ]
        ELSE [ editor_buffer |-> buffer,
               response |-> [kind |-> "NotApplied", result |-> "Ok"] ]

\* A failed conversion still hands back a clone as Applied.
apply_event_always_applied(buffer, engine, input_event) ==
    LET converted == EditorEvent_try_from(input_event)
    IN  [ editor_buffer |-> buffer,
          response |-> [kind |-> "Applied", result |-> "Ok",
                        buffer |-> IF converted.ok
                                   THEN apply_editor_event(engine, buffer, converted.event)
                                   ELSE buffer] ]

\* The clone is returned without the event applied to it.
apply_event_skips_apply(buffer, engine, input_event) ==
    LET converted == EditorEvent_try_from(input_event)
    IN  IF converted.ok
        THEN [ editor_buffer |-> buffer,
               response |-> [kind |-> "Applied", result |-> "Ok", buffer |-> buffer] ]
        ELSE [ editor_buffer |-> buffer,
               response |-> [kind |-> "NotApplied", result |-> "Ok"] ]

\* EditorEngine::apply_event(args, input_event). The result names what the
\* caller holds afterwards (editor_buffer, behind the shared reference of
\* args), the CommonResult (Ok) and the EditorEngineApplyResponse in it.
apply_event(buffer, engine, input_event) ==
    LET converted == EditorEvent_try_from(input_event)
    IN  IF converted.ok
        THEN LET new_editor_buffer == apply_editor_event(engine, buffer, converted.event)
             IN  [ editor_buffer |-> buffer,
                   response |-> [kind |-> "Applied", result |-> "Ok",
                                 buffer |-> new_editor_buffer] ]
        ELSE [ editor_buffer |-> buffer,
               response |-> [kind |-> "NotApplied", result |-> "Ok"] ]

\* ------------------------------------------------------------------ markdown delimiters

\* A &str is a sequence of characters (one-character strings).
BITALIC_1 == <<"*", "*", "*">>

BITALIC_2 == <<"_", "_", "_">>

BOLD_1 == <<"*", "*">>

BOLD_2 == <<"_", "_">>

ITALIC_1 == <<"*">>

ITALIC_2 == <<"_">>

\* The back tick is written by its code point.
BACK_TICK == <<"U+0060">>

LEFT_BRACKET == <<"[">>

RIGHT_BRACKET == <<"]">>

LEFT_PARENTHESIS == <<"(">>

RIGHT_PARENTHESIS == <<")">>

LEFT_IMAGE == <<"!", "[">>

RIGHT_IMAGE == <<"]">>

CHECKED == <<"[", "x", "]">>

UNCHECKED == <<"[", " ", "]">>

NEW_LINE == <<"\n">>

\* ------------------------------------------------------------------ nom combinators

\* IResult: Ok((rest, output)) or Err(Error { input, code }).
Ok(rest, output) == [ok |-> TRUE, rest |-> rest, output |-> output]

Err(error_input, code) == [ok |-> FALSE, input |-> error_input, code |-> code]

starts_with(str, prefix) ==
    Len(prefix) <= Len(str) /\ SubSeq(str, 1, Len(prefix)) = prefix

drop(str, count) == SubSeq(str, count + 1, Len(str))

\* tag(t): the input must start with t.
tag(t, str) ==
    IF starts_with(str, t) THEN Ok(drop(str, Len(t)), t) ELSE Err(str, "Tag")

\* The length of the longest prefix of str holding no character of arr.
RECURSIVE span_not_in(_, _)
span_not_in(arr, str) ==
    IF str = <<>> \/ Head(str) \in Range(arr) THEN 0
    ELSE 1 + span_not_in(arr, Tail(str))

\* The empty prefix is accepted as a match.
is_not_allows_empty(arr, str) ==
    LET count == span_not_in(arr, str)
    IN  Ok(drop(str, count), SubSeq(str, 1, count))

\* is_not(arr): the longest prefix with no character of arr; an empty one is
\* an error.
is_not(arr, str) ==
    LET count == span_not_in(arr, str)
    IN  IF count = 0 THEN Err(str, "IsNot")
        ELSE Ok(drop(str, count), SubSeq(str, 1, count))

\* The closing delimiter is not asked for.
delimited_unclosed(open, arr, close, str) ==
    LET first == tag(open, str)
    IN  IF ~first.ok THEN first ELSE is_not(arr, first.rest)

\* delimited(tag(open), is_not(arr), tag(close)): the output of the middle
\* parser, the error of the first parser that fails.
delimited(open, arr, close, str) ==
    LET first == tag(open, str)
    IN  IF ~first.ok THEN first
        ELSE LET second == is_not(arr, first.rest)
             IN  IF ~second.ok THEN second
                 ELSE LET third == tag(close, second.rest)
                      IN  IF ~third.ok THEN third
                          ELSE Ok(third.rest, second.output)

\* alt((first, second)): the first success, and the error of the last
\* alternative when all fail.
alt(first, second) == IF first.ok THEN first ELSE second

\* map(parser, |_| value) applied to the result of the parser.
map(result, value) == IF result.ok THEN Ok(result.rest, value) ELSE result

\* anychar: one character, Eof on the empty input.
anychar(str) == IF str = <<>> THEN Err(str, "Eof") ELSE Ok(Tail(str), Head(str))

\* ------------------------------------------------------------------ inline element parsers

\* HyperlinkData::from((text, url))
HyperlinkData(text, url) == [text |-> text, url |-> url]

\* MdLineFragment::Italic(text), ::Bold(text), ..., ::Plain(text): the variant
\* and what it holds.
MdLineFragment(kind, value) == [kind |-> kind, value |-> value]

\* map(parser, MdLineFragment::Kind) applied to the result of the parser.
map_fragment(result, kind) ==
    IF result.ok THEN Ok(result.rest, MdLineFragment(kind, result.output)) ELSE result

parse_element_bold_italic(str) ==
    alt(delimited(BITALIC_1, BITALIC_1, BITALIC_1, str),
        delimited(BITALIC_2, BITALIC_2, BITALIC_2, str))

\* The body is closed by a single delimiter character.
parse_element_bold_single_close(str) ==
    alt(delimited(BOLD_1, BOLD_1, ITALIC_1, str),
        delimited(BOLD_2, BOLD_2, ITALIC_2, str))

parse_element_bold(str) ==
    alt(delimited(BOLD_1, BOLD_1, BOLD_1, str),
        delimited(BOLD_2, BOLD_2, BOLD_2, str))

\* The closing delimiter is not looked for: the body runs to the end.
parse_element_italic_unclosed(str) ==
    LET Body(open) == LET first == tag(open, str)
                      IN  IF first.ok THEN is_not(open, first.rest) ELSE first
    IN  alt(Body(ITALIC_1), Body(ITALIC_2))

parse_element_italic(str) ==
    alt(delimited(ITALIC_1, ITALIC_1, ITALIC_1, str),
        delimited(ITALIC_2, ITALIC_2, ITALIC_2, str))

parse_element_code(str) == delimited(BACK_TICK, BACK_TICK, BACK_TICK, str)

\* The text and the url change places.
pair_of_delimited_swapped(open, close, str) ==
    LET first == delimited(open, close, close, str)
    IN  IF ~first.ok THEN first
        ELSE LET second == delimited(LEFT_PARENTHESIS, RIGHT_PARENTHESIS,
                                     RIGHT_PARENTHESIS, first.rest)
             IN  IF ~second.ok THEN second
                 ELSE Ok(second.rest, HyperlinkData(second.output, first.output))

\* pair(delimited(tag(open), is_not(close), tag(close)),
\*      delimited(tag("("), is_not(")"), tag(")"))) and HyperlinkData::from.
pair_of_delimited(open, close, str) ==
    LET first == delimited(open, close, close, str)
    IN  IF ~first.ok THEN first
        ELSE LET second == delimited(LEFT_PARENTHESIS, RIGHT_PARENTHESIS,
                                     RIGHT_PARENTHESIS, first.rest)
             IN  IF ~second.ok THEN second
                 ELSE Ok(second.rest, HyperlinkData(first.output, second.output))

parse_element_link(str) == pair_of_delimited(LEFT_BRACKET, RIGHT_BRACKET, str)

parse_element_checkbox(str) ==
    alt(map(tag(CHECKED, str), TRUE), map(tag(UNCHECKED, str), FALSE))

parse_element_image(str) == pair_of_delimited(LEFT_IMAGE, RIGHT_IMAGE, str)

\* The start tags without the one of an image.
SpecialTags_without_left_image ==
    << BITALIC_1, BITALIC_2, BOLD_1, BOLD_2, ITALIC_1, ITALIC_2, BACK_TICK,
       LEFT_BRACKET, NEW_LINE >>

\* The start tags plain text stops at.
SpecialTags ==
    << BITALIC_1, BITALIC_2, BOLD_1, BOLD_2, ITALIC_1, ITALIC_2, BACK_TICK,
       LEFT_BRACKET, LEFT_IMAGE, NEW_LINE >>

\* Any character is taken, the start tags included.
plain_char_without_not(str) == anychar(str)

\* preceded(not(alt((tag(...), ...))), anychar)
plain_char(str) ==
    IF \E i \in DOMAIN SpecialTags : starts_with(str, SpecialTags[i])
    THEN Err(str, "Not")
    ELSE anychar(str)

\* The input left when plain_char fails.
RECURSIVE plain_rest(_)
plain_rest(str) ==
    LET next == plain_char(str)
    IN  IF next.ok THEN plain_rest(next.rest) ELSE str

\* many0 in the place of many1: no character at all is also a match.
parse_element_plaintext_many0(str) ==
    LET rest == plain_rest(str)
    IN  Ok(rest, SubSeq(str, 1, Len(str) - Len(rest)))

\* recognize(many1(plain_char)): at least one character, the consumed text
\* as output.
parse_element_plaintext(str) ==
    LET first == plain_char(str)
    IN  IF ~first.ok THEN first
        ELSE LET rest == plain_rest(first.rest)
             IN  Ok(rest, SubSeq(str, 1, Len(str) - Len(rest)))

\* The checkbox is tried before the image and the link.
parse_element_markdown_inline_checkbox_first(str) ==
    alt(map_fragment(parse_element_italic(str), "Italic"),
    alt(map_fragment(parse_element_bold(str), "Bold"),
    alt(map_fragment(parse_element_bold_italic(str), "BoldItalic"),
    alt(map_fragment(parse_element_code(str), "InlineCode"),
    alt(map_fragment(parse_element_checkbox(str), "Checkbox"),
    alt(map_fragment(parse_element_image(str), "Image"),
    alt(map_fragment(parse_element_link(str), "Link"),
        map_fragment(parse_element_plaintext(str), "Plain"))))))))

parse_element_markdown_inline(str) ==
    alt(map_fragment(parse_element_italic(str), "Italic"),
    alt(map_fragment(parse_element_bold(str), "Bold"),
    alt(map_fragment(parse_element_bold_italic(str), "BoldItalic"),
    alt(map_fragment(parse_element_code(str), "InlineCode"),
    alt(map_fragment(parse_element_image(str), "Image"),
    alt(map_fragment(parse_element_link(str), "Link"),
    alt(map_fragment(parse_element_checkbox(str), "Checkbox"),
        map_fragment(parse_element_plaintext(str), "Plain"))))))))

\* ------------------------------------------------------------------ render ops

MoveCursorPositionRelTo(origin, rel) ==
    [op |-> "MoveCursorPositionRelTo", origin |-> origin, rel |-> rel]

ApplyColors(style) == [op |-> "ApplyColors", style |-> style]

PaintTextWithAttributes(text, style) ==
    [op |-> "PaintTextWithAttributes", text |-> text, style |-> style]

ResetColor == [op |-> "ResetColor"]

\* style! { attrib: [reverse] } and style! { color_fg: TuiColor::Basic(Red) }
ReverseStyle == "reverse"

RedStyle == "red"

DEFAULT_CURSOR_CHAR == <<"U+2592">>

NoContentAdded ==
    <<"N", "o", " ", "c", "o", "n", "t", "e", "n", "t", " ", "a", "d", "d", "e", "d">>

EyesEmoji == <<"U+1F440">>

ZOrders == {"Deferred", "Normal", "Glass", "Caret"}

\* render_pipeline!(): a fresh pipeline, every layer empty.
render_pipeline_new == [z \in ZOrders |-> <<>>]

\* The RenderOps go in front of the layer's earlier pushes.
pipeline_push_in_front(render_pipeline, z_order, render_ops) ==
    [render_pipeline EXCEPT ![z_order] = <<render_ops>> \o @]

\* RenderPipeline::push(z_order, render_ops)
pipeline_push(render_pipeline, z_order, render_ops) ==
    [render_pipeline EXCEPT ![z_order] = Append(@, render_ops)]

\* The flattened order a backend drains the pipeline in.
pipeline_drain(render_pipeline) ==
    Flatten(render_pipeline["Deferred"]) \o Flatten(render_pipeline["Normal"])
        \o Flatten(render_pipeline["Glass"]) \o Flatten(render_pipeline["Caret"])

\* Position::add_row_with_bounds(value, max)
add_row_with_bounds(pos, value, max) ==
    position(pos.col_index, Min(pos.row_index + value, max))

does_id_have_focus(focus, id) == focus = id

\* ------------------------------------------------------------------ syntax highlighting

\* HighlightLines::highlight_line(line, syntax_set): Ok(spans), the spans
\* concatenating to the line, or Err on the lines of failing_lines.
highlight_line(line, failing_lines) ==
    IF line \in failing_lines THEN [ok |-> FALSE]
    ELSE [ok |-> TRUE,
          spans |-> IF Len(line) = 0 THEN <<>>
                    ELSE IF Len(line) = 1 THEN << [style |-> "H1", text |-> line] >>
                    ELSE << [style |-> "H1", text |-> SubSeq(line, 1, 1)],
                            [style |-> "H2", text |-> SubSeq(line, 2, Len(line))] >>]

try_get_syntax_ref(syntax_set, file_extension) ==
    IF file_extension \in syntax_set
    THEN [some |-> TRUE, syntax |-> file_extension]
    ELSE [some |-> FALSE]

try_get_syntax_ref_from(engine, buffer) ==
    try_get_syntax_ref(engine.syntax_set, get_file_extension(buffer))

\* The line is highlighted whatever the config says.
try_get_syntect_highlighted_line_ignores_config(syntax_highlight_enabled, engine, buffer, line, failing_lines) ==
    LET maybe_my_syntax_ref == try_get_syntax_ref_from(engine, buffer)
        maybe_line == highlight_line(line, failing_lines)
    IN  IF maybe_my_syntax_ref.some /\ maybe_line.ok
        THEN [some |-> TRUE, spans |-> maybe_line.spans]
        ELSE [some |-> FALSE]

try_get_syntect_highlighted_line(syntax_highlight_enabled, engine, buffer, line, failing_lines) ==
    IF ~syntax_highlight_enabled THEN [some |-> FALSE]
    ELSE LET maybe_my_syntax_ref == try_get_syntax_ref_from(engine, buffer)
         IN  IF maybe_my_syntax_ref.some
             THEN LET maybe_line == highlight_line(line, failing_lines)
                  IN  IF maybe_line.ok
                      THEN [some |-> TRUE, spans |-> maybe_line.spans]
                      ELSE [some |-> FALSE]
             ELSE [some |-> FALSE]

\* syntect_to_styled_text_conversion::from_syntect_to_tui
from_syntect_to_tui(spans) ==
    [i \in 1..Len(spans) |->
        [style |-> IF spans[i].style = "H1" THEN "T1" ELSE "T2", text |-> spans[i].text]]

\* A span that overlaps the window is kept whole.
RECURSIVE clip_spans_uncut(_, _, _, _)
clip_spans_uncut(list, offset, col_start, max_cols) ==
    IF list = <<>> THEN <<>>
    ELSE LET span == Head(list)
             lo == Max(col_start, offset)
             hi == Min(offset + Len(span.text), col_start + max_cols)
             rest == clip_spans_uncut(Tail(list), offset + Len(span.text), col_start, max_cols)
         IN  IF lo < hi THEN <<span>> \o rest ELSE rest

\* List<StyleUSSpan>::clip(col_start, max_cols): the spans cut to the
\* columns [col_start, col_start + max_cols); offset is the column the first
\* span of list starts at.
RECURSIVE clip_spans(_, _, _, _)
clip_spans(list, offset, col_start, max_cols) ==
    IF list = <<>> THEN <<>>
    ELSE LET span == Head(list)
             lo == Max(col_start, offset)
             hi == Min(offset + Len(span.text), col_start + max_cols)
             rest == clip_spans(Tail(list), offset + Len(span.text), col_start, max_cols)
         IN  IF lo < hi
             THEN << [style |-> span.style,
                      text |-> SubSeq(span.text, lo - offset + 1, hi - offset)] >> \o rest
             ELSE rest

\* StyledTexts::render_into(render_ops)
RECURSIVE styled_texts_render_into(_, _)
styled_texts_render_into(styled_texts, render_ops) ==
    IF styled_texts = <<>> THEN render_ops
    ELSE styled_texts_render_into(
             Tail(styled_texts),
             render_ops \o << ApplyColors(Head(styled_texts).style),
                             PaintTextWithAttributes(Head(styled_texts).text,
                                                     Head(styled_texts).style),
                             ResetColor >>)

\* ------------------------------------------------------------------ render

\* The styled spans are rendered whole, without List::clip.
render_line_with_syntax_highlight_unclipped(syntect_highlighted_line, buffer, max_display_col_count, render_ops, engine) ==
    styled_texts_render_into(from_syntect_to_tui(syntect_highlighted_line), render_ops)

render_line_with_syntax_highlight(syntect_highlighted_line, buffer, max_display_col_count, render_ops, engine) ==
    LET scroll_offset_col == get_scroll_offset(buffer).col_index
        list == from_syntect_to_tui(syntect_highlighted_line)
        styled_texts == clip_spans(list, 0, scroll_offset_col, max_display_col_count)
    IN  styled_texts_render_into(styled_texts, render_ops)

\* The line is clipped from column 0, not from the scroll offset.
render_line_no_syntax_highlight_from_col_0(line, buffer, max_display_col_count, render_ops, engine) ==
    render_ops
        \o << ApplyColors(get_computed_style(engine.current_box)),
              PaintTextWithAttributes(clip(line, 0, max_display_col_count),
                                      get_computed_style(engine.current_box)) >>

render_line_no_syntax_highlight(line, buffer, max_display_col_count, render_ops, engine) ==
    LET scroll_offset_col_index == get_scroll_offset(buffer).col_index
        truncated_line == clip(line, scroll_offset_col_index, max_display_col_count)
    IN  render_ops
            \o << ApplyColors(get_computed_style(engine.current_box)),
                  PaintTextWithAttributes(truncated_line,
                                          get_computed_style(engine.current_box)) >>

\* The colors are not reset after the line.
render_single_line_without_reset(render_ops, row_index, engine, syntax_highlight_enabled, buffer, line, max_display_col_count, failing_lines) ==
    LET moved == Append(render_ops,
                        MoveCursorPositionRelTo(
                            engine.current_box.style_adjusted_origin_pos,
                            position(0, row_index)))
        maybe_highlighted ==
            try_get_syntect_highlighted_line(syntax_highlight_enabled, engine, buffer,
                                             line, failing_lines)
    IN  IF maybe_highlighted.some
        THEN render_line_with_syntax_highlight(maybe_highlighted.spans, buffer,
                                               max_display_col_count, moved, engine)
        ELSE render_line_no_syntax_highlight(line, buffer, max_display_col_count,
                                             moved, engine)

render_single_line(render_ops, row_index, engine, syntax_highlight_enabled, buffer, line, max_display_col_count, failing_lines) ==
    LET moved == Append(render_ops,
                        MoveCursorPositionRelTo(
                            engine.current_box.style_adjusted_origin_pos,
                            position(0, row_index)))
        maybe_highlighted ==
            try_get_syntect_highlighted_line(syntax_highlight_enabled, engine, buffer,
                                             line, failing_lines)
        painted ==
            IF maybe_highlighted.some
            THEN render_line_with_syntax_highlight(maybe_highlighted.spans, buffer,
                                                   max_display_col_count, moved, engine)
            ELSE render_line_no_syntax_highlight(line, buffer, max_display_col_count,
                                                 moved, engine)
    IN  Append(painted, ResetColor)

\* The loop of render_content: row_index enumerates the lines left after
\* skipping scroll_offset.row_index of them.
RECURSIVE render_content_loop(_, _, _, _, _)
render_content_loop(render_ops, row_index, buffer, engine, failing_lines) ==
    LET max_display_col_count == engine.current_box.style_adjusted_bounds_size.col_count
        max_display_row_count == engine.current_box.style_adjusted_bounds_size.row_count
        syntax_highlight_enabled == engine.config_options.syntax_highlight
        lines == get_lines(buffer)
        index == get_scroll_offset(buffer).row_index + row_index
    IN  IF index >= Len(lines) THEN render_ops
        ELSE IF row_index > max_display_row_count THEN render_ops
        ELSE render_content_loop(
                 render_single_line(render_ops, row_index, engine,
                                    syntax_highlight_enabled, buffer, lines[index + 1],
                                    max_display_col_count, failing_lines),
                 row_index + 1, buffer, engine, failing_lines)

\* The lines are taken from the first one, whatever the scroll offset.
render_content_from_first_line(buffer, engine, render_ops, failing_lines) ==
    render_content_loop(render_ops, 0,
                        [buffer EXCEPT !.scroll_offset.row_index = 0],
                        engine, failing_lines)

render_content(buffer, engine, render_ops, failing_lines) ==
    render_content_loop(render_ops, 0, buffer, engine, failing_lines)

\* The caret is painted whether or not the box has focus.
render_caret_without_focus_test(buffer, engine, focus, render_ops) ==
    LET at_caret == string_at_caret(buffer)
        str_at_caret == IF at_caret.some THEN at_caret.string ELSE DEFAULT_CURSOR_CHAR
        move == MoveCursorPositionRelTo(engine.current_box.style_adjusted_origin_pos,
                                        get_caret(buffer, "Raw"))
    IN  render_ops
            \o << move, PaintTextWithAttributes(str_at_caret, ReverseStyle), move,
                  ResetColor >>

render_caret(buffer, engine, focus, render_ops) ==
    IF does_id_have_focus(focus, engine.current_box.id)
    THEN LET at_caret == string_at_caret(buffer)
             str_at_caret == IF at_caret.some THEN at_caret.string
                             ELSE DEFAULT_CURSOR_CHAR
         IN  render_ops
                 \o << MoveCursorPositionRelTo(
                           engine.current_box.style_adjusted_origin_pos,
                           get_caret(buffer, "Raw")),
                       PaintTextWithAttributes(str_at_caret, ReverseStyle),
                       MoveCursorPositionRelTo(
                           engine.current_box.style_adjusted_origin_pos,
                           get_caret(buffer, "Raw")),
                       ResetColor >>
    ELSE render_ops

\* The emoji is painted whether or not the box has focus.
render_empty_state_always_emoji(engine, focus) ==
    pipeline_push(
        pipeline_push(render_pipeline_new, "Normal",
            << MoveCursorPositionRelTo(
                   engine.current_box.style_adjusted_origin_pos, position(0, 0)),
               ApplyColors(RedStyle),
               PaintTextWithAttributes(NoContentAdded, "None"),
               ResetColor >>),
        "Normal",
        << MoveCursorPositionRelTo(
               engine.current_box.style_adjusted_origin_pos,
               add_row_with_bounds(
                   position(0, 0), 1,
                   engine.current_box.style_adjusted_bounds_size.row_count)),
           PaintTextWithAttributes(EyesEmoji, "None"),
           ResetColor >>)

render_empty_state(engine, focus) ==
    LET content_cursor_pos == position(0, 0)
        text_pipeline ==
            pipeline_push(render_pipeline_new, "Normal",
                << MoveCursorPositionRelTo(
                       engine.current_box.style_adjusted_origin_pos, position(0, 0)),
                   ApplyColors(RedStyle),
                   PaintTextWithAttributes(NoContentAdded, "None"),
                   ResetColor >>)
    IN  IF does_id_have_focus(focus, engine.current_box.id)
        THEN pipeline_push(text_pipeline, "Normal",
                 << MoveCursorPositionRelTo(
                        engine.current_box.style_adjusted_origin_pos,
                        add_row_with_bounds(
                            content_cursor_pos, 1,
                            engine.current_box.style_adjusted_bounds_size.row_count)),
                    PaintTextWithAttributes(EyesEmoji, "None"),
                    ResetColor >>)
        ELSE text_pipeline

\* The render scrolls the buffer back to its origin.
render_engine_scrolls_buffer(buffer, engine, focus, flex_box, failing_lines) ==
    LET new_engine == [engine EXCEPT !.current_box = EditorEngineFlexBox_from(flex_box)]
    IN  [ editor_buffer |-> [buffer EXCEPT !.scroll_offset = position(0, 0)],
          editor_engine |-> new_engine,
          pipeline |->
              IF is_empty(buffer)
              THEN render_empty_state(new_engine, focus)
              ELSE LET content == render_content(buffer, new_engine, <<>>, failing_lines)
                       render_ops == render_caret(buffer, new_engine, focus, content)
                   IN  pipeline_push(render_pipeline_new, "Normal", render_ops) ]

\* The caret is painted before the content.
render_engine_caret_first(buffer, engine, focus, flex_box, failing_lines) ==
    LET new_engine == [engine EXCEPT !.current_box = EditorEngineFlexBox_from(flex_box)]
    IN  [ editor_buffer |-> buffer,
          editor_engine |-> new_engine,
          pipeline |->
              IF is_empty(buffer)
              THEN render_empty_state(new_engine, focus)
              ELSE LET caret == render_caret(buffer, new_engine, focus, <<>>)
                       render_ops == render_content(buffer, new_engine, caret,
                                                    failing_lines)
                   IN  pipeline_push(render_pipeline_new, "Normal", render_ops) ]

\* EditorEngine::render_engine(args, current_box). The result names what the
\* caller holds afterwards (the buffer and the engine of args) and the
\* RenderPipeline returned.
render_engine(buffer, engine, focus, flex_box, failing_lines) ==
    LET new_engine == [engine EXCEPT !.current_box = EditorEngineFlexBox_from(flex_box)]
    IN  [ editor_buffer |-> buffer,
          editor_engine |-> new_engine,
          pipeline |->
              IF is_empty(buffer)
              THEN render_empty_state(new_engine, focus)
              ELSE LET content == render_content(buffer, new_engine, <<>>, failing_lines)
                       render_ops == render_caret(buffer, new_engine, focus, content)
                   IN  pipeline_push(render_pipeline_new, "Normal", render_ops) ]

\* ------------------------------------------------------------------ shareable fn wrapper

Threads == 1..MaxThreads

\* A thread that is not using the wrapper.
Idle == [at |-> "idle", via |-> "none", guard |-> "none"]

\* A thread that a panic has unwound.
Panicked == [at |-> "panicked", via |-> "none", guard |-> "none"]

\* RWLOCK::new(f): no writer, no reader, not poisoned.
RwLock_new == [writer |-> 0, readers |-> {}, poisoned |-> FALSE]

\* Wrapper::from(f): the function behind a new lock in an Arc; no thread
\* uses it yet.
FnWrapper_from == [lock |-> RwLock_new, threads |-> [t \in Threads |-> Idle]]

\* RwLock::write() can return: nobody holds the lock.
can_write(lock) == lock.writer = 0 /\ lock.readers = {}

\* RwLock::read() can return: no writer holds the lock.
can_read(lock) == lock.writer = 0

\* The guard of thread t is dropped.
unlock(lock, t) ==
    [lock EXCEPT !.writer = IF lock.writer = t THEN 0 ELSE lock.writer,
                 !.readers = lock.readers \ {t}]

\* ------------------------------------------------------------------ demo launcher

\* main before its loop: no event read yet. pc is "loop" while the loop
\* runs, "ok" after a break (main returns ok!()) and "err" when main returned
\* the error of enable_raw_mode.
main_new(raw_mode) == [pc |-> "loop", raw_mode |-> raw_mode, events |-> <<>>]

\* enum AutoCompleteCommand: the variants with the texts from_str accepts,
\* in lower case (serialize and to_string, ascii_case_insensitive).
AutoCompleteCommand ==
    << [command |-> "NoLayout", serialize |-> "0", to_string |-> "app with no layout"],
       [command |-> "OneColLayout", serialize |-> "1",
        to_string |-> "app with 1 column responsive layout"],
       [command |-> "TwoColLayout", serialize |-> "2",
        to_string |-> "app with 2 column responsive layout"],
       [command |-> "Editor", serialize |-> "3",
        to_string |-> "markdown editor, syntax highlighting, modal dialog, and emoji"],
       [command |-> "Slides", serialize |-> "4", to_string |-> "why r3bl? why tui?"],
       [command |-> "Commander", serialize |-> "5", to_string |-> "r3bl cmdr prototype"],
       [command |-> "Exit", serialize |-> "x", to_string |-> "exit"] >>

\* What the user types at the prompt.
Selections == {"0", "1", "2", "3", "4", "5", "x", "X", "exit", "Exit", "9", ""}

\* The selection in ASCII lower case.
to_ascii_lowercase(selection) ==
    CASE selection = "X" -> "x"
      [] selection = "Exit" -> "exit"
      [] OTHER -> selection

\* AutoCompleteCommand::from_str(&selection)
AutoCompleteCommand_from_str(selection) ==
    LET lower == to_ascii_lowercase(selection)
        found == { i \in DOMAIN AutoCompleteCommand :
                     lower \in {AutoCompleteCommand[i].serialize,
                                AutoCompleteCommand[i].to_string} }
    IN  IF found = {} THEN [ok |-> FALSE]
        ELSE [ok |-> TRUE, command |-> AutoCompleteCommand[CHOOSE i \in found : TRUE].command]

\* The Exit command returns Ok like an unrecognized selection.
run_user_selected_example_exit_ok(selection, run_app, raw_mode) ==
    LET result_command == AutoCompleteCommand_from_str(selection)
    IN  IF result_command.ok /\ result_command.command # "Exit"
        THEN [ok |-> run_app = "ok", raw_mode |-> FALSE]
        ELSE [ok |-> TRUE, raw_mode |-> raw_mode]

\* run_user_selected_example(selection): the result, and the raw mode of the
\* terminal when it returns. run_app is the result of the example run, which
\* takes the terminal out of raw mode when it exits.
run_user_selected_example(selection, run_app, raw_mode) ==
    LET result_command == AutoCompleteCommand_from_str(selection)
    IN  IF result_command.ok
        THEN IF result_command.command = "Exit"
             THEN [ok |-> FALSE, raw_mode |-> raw_mode]
             ELSE [ok |-> run_app = "ok", raw_mode |-> FALSE]
        ELSE [ok |-> TRUE, raw_mode |-> raw_mode]

\* ------------------------------------------------------------------ the editor session

\* The layout rectangles the editor component is rendered into.
SessionBoxes ==
    { FlexBox(EditorId, position(1, 1), size(2, 1), "None"),
      FlexBox(EditorId, position(1, 1), size(1, 2), "S1") }

SessionConfigs ==
    { DefaultConfigOptions,
      [multiline |-> TRUE, syntax_highlight |-> FALSE],
      [multiline |-> FALSE, syntax_highlight |-> TRUE] }

InBounds(buffer) ==
    /\ Len(buffer.lines) <= MaxLines
    /\ \A i \in 1..Len(buffer.lines) : Len(buffer.lines[i]) <= MaxLineLen

Init ==
    /\ editor_buffer = EditorBuffer_default("md")
    /\ editor_engine \in { EditorEngine_new(c) : c \in SessionConfigs }
    /\ has_focus \in {EditorId, OtherId}
    /\ response = NoResponse
    /\ pipeline = render_pipeline_new
    /\ installed = editor_buffer
    /\ call = [name |-> "new"]
    /\ pushes = <<>>
    /\ input = <<>>
    /\ remainder = <<>>
    /\ fragments = <<>>
    /\ fn_wrapper = FnWrapper_from
    /\ launcher = main_new(TRUE)

\* The caller passes its buffer and the next input event to apply_event.
ApplyEvent ==
    /\ response.kind = "None"
    /\ \E input_event \in InputEvents :
          LET returned == apply_event(editor_buffer, editor_engine, input_event)
          IN  /\ returned.response.kind = "Applied" => InBounds(returned.response.buffer)
              /\ editor_buffer' = returned.editor_buffer
              /\ response' = returned.response
              /\ call' = [name |-> "apply_event", input_event |-> input_event,
                          editor_buffer |-> editor_buffer]
    /\ pipeline' = render_pipeline_new
    /\ UNCHANGED <<pushes, input, remainder, fragments, editor_engine, has_focus, installed, fn_wrapper, launcher>>

\* The caller swaps in the buffer of an Applied response.
InstallBuffer ==
    /\ response.kind = "Applied"
    /\ editor_buffer' = response.buffer
    /\ installed' = response.buffer
    /\ response' = NoResponse
    /\ call' = [name |-> "install"]
    /\ UNCHANGED <<pushes, input, remainder, fragments, editor_engine, has_focus, pipeline, fn_wrapper, launcher>>

\* The caller drops the response (an Applied buffer it does not want, or
\* NotApplied).
DropResponse ==
    /\ response.kind # "None"
    /\ response' = NoResponse
    /\ call' = [name |-> "drop", editor_buffer |-> call.editor_buffer,
                dropped |-> response]
    /\ UNCHANGED <<pushes, input, remainder, fragments, editor_buffer, editor_engine, has_focus, pipeline, installed, fn_wrapper, launcher>>

\* The caller renders its buffer into one of the layout rectangles of boxes.
RenderInto(boxes) ==
    /\ response.kind = "None"
    /\ \E flex_box \in boxes :
       \E failing_lines \in { {} } \cup { {l} : l \in Range(editor_buffer.lines) } :
          LET returned == render_engine(editor_buffer, editor_engine, has_focus,
                                        flex_box, failing_lines)
          IN  /\ editor_buffer' = returned.editor_buffer
              /\ editor_engine' = returned.editor_engine
              /\ pipeline' = returned.pipeline
              /\ call' = [name |-> "render_engine", flex_box |-> flex_box,
                          failing_lines |-> failing_lines,
                          editor_buffer |-> editor_buffer]
    /\ UNCHANGED <<pushes, input, remainder, fragments, has_focus, response, installed, fn_wrapper, launcher>>

RenderEngine == RenderInto(SessionBoxes)

\* The caller renders again into the FlexBox made from the box the engine
\* kept at the last render.
RenderAgain ==
    /\ call.name = "render_engine"
    /\ RenderInto({ FlexBox_from(editor_engine.current_box) })

\* The component registry moves the focus.
FocusChange ==
    /\ response.kind = "None"
    /\ has_focus' \in {EditorId, OtherId} \ {has_focus}
    /\ pipeline' = render_pipeline_new
    /\ call' = [name |-> "focus"]
    /\ UNCHANGED <<pushes, input, remainder, fragments, editor_buffer, editor_engine, response, installed, fn_wrapper, launcher>>

Next ==
    \/ ApplyEvent
    \/ InstallBuffer
    \/ DropResponse
    \/ RenderEngine
    \/ RenderAgain
    \/ FocusChange

Spec == Init /\ [][Next]_vars

\* ------------------------------------------------------------------ rendering alone

\* render_engine as a function of (buffer, flex_box, engine): the buffers,
\* engines and layout rectangles it is applied to.
Hello == <<"h", "e", "l", "l", "o">>

Digits == <<"0", "1", "2", "3", "4", "5", "6", "7", "8", "9">>

Ab == <<"a", "b">>

RenderLines ==
    { <<>>, << <<>> >>, <<Hello>>, <<Digits>>, <<Hello, Digits, Ab>> }

FileExtensions == {"md", "zz"}

\* The positions a caret can take in lines.
CaretPositions(lines) ==
    IF lines = <<>> THEN { position(0, 0) }
    ELSE UNION { { position(col, row - 1) : col \in 0..Min(MaxRenderCol, Len(lines[row])) } :
                 row \in 1..Len(lines) }

BuffersAt(lines, caret) ==
    { [ lines |-> lines, caret |-> caret, scroll_offset |-> position(col, row),
        file_extension |-> ext ] :
        col \in 0..caret.col_index, row \in 0..caret.row_index, ext \in FileExtensions }

BuffersOf(lines) == UNION { BuffersAt(lines, caret) : caret \in CaretPositions(lines) }

RenderBuffers == UNION { BuffersOf(lines) : lines \in RenderLines }

RenderBoxes ==
    { FlexBox(EditorId, position(0, 0), size(10, 2), "None"),
      FlexBox(EditorId, position(2, 1), size(4, 1), "S1"),
      FlexBox(OtherId, position(2, 1), size(2, 3), "None"),
      FlexBox(EditorId, position(0, 0), size(1, 0), "None") }

InitRender ==
    /\ editor_buffer \in RenderBuffers
    /\ editor_engine \in { EditorEngine_new([multiline |-> TRUE, syntax_highlight |-> sh]) :
                               sh \in BOOLEAN }
    /\ has_focus \in {EditorId, OtherId}
    /\ response = NoResponse
    /\ pipeline = render_pipeline_new
    /\ installed = editor_buffer
    /\ call = [name |-> "new"]
    /\ pushes = <<>>
    /\ input = <<>>
    /\ remainder = <<>>
    /\ fragments = <<>>
    /\ fn_wrapper = FnWrapper_from
    /\ launcher = main_new(TRUE)

RenderSnapshot == RenderInto(RenderBoxes)

NextRender == RenderSnapshot

SpecRender == InitRender /\ [][NextRender]_vars

\* ------------------------------------------------------------------ the pipeline alone

\* The RenderOps of the push number serial: one or two ops that name the
\* push and their place in it.
PushOps(serial) ==
    { << MoveCursorPositionRelTo(position(0, 0), position(0, serial)) >>,
      << MoveCursorPositionRelTo(position(0, 0), position(0, serial)),
         MoveCursorPositionRelTo(position(0, 0), position(1, serial)) >> }

InitPipeline ==
    /\ editor_buffer = EditorBuffer_default("md")
    /\ editor_engine = EditorEngine_new(DefaultConfigOptions)
    /\ has_focus = EditorId
    /\ response = NoResponse
    /\ pipeline = render_pipeline_new
    /\ installed = editor_buffer
    /\ call = [name |-> "new"]
    /\ pushes = <<>>
    /\ input = <<>>
    /\ remainder = <<>>
    /\ fragments = <<>>
    /\ fn_wrapper = FnWrapper_from
    /\ launcher = main_new(TRUE)

\* A component pushes RenderOps into a layer of the pipeline.
Push ==
    /\ Len(pushes) < MaxPushes
    /\ \E z_order \in ZOrders, render_ops \in PushOps(Len(pushes)) :
          /\ pipeline' = pipeline_push(pipeline, z_order, render_ops)
          /\ pushes' = Append(pushes, [z_order |-> z_order, render_ops |-> render_ops])
    /\ call' = [name |-> "push"]
    /\ UNCHANGED <<editor_buffer, editor_engine, has_focus, response, installed, input, remainder, fragments, fn_wrapper, launcher>>

\* The backend drains the pipeline; the next frame starts a fresh one.
Drain ==
    /\ pushes # <<>>
    /\ call' = [name |-> "drain", drained |-> pipeline_drain(pipeline), pushes |-> pushes]
    /\ pipeline' = render_pipeline_new
    /\ pushes' = <<>>
    /\ UNCHANGED <<editor_buffer, editor_engine, has_focus, response, installed, input, remainder, fragments, fn_wrapper, launcher>>

NextPipeline ==
    \/ Push
    \/ Drain

SpecPipeline == InitPipeline /\ [][NextPipeline]_vars

\* ------------------------------------------------------------------ the inline parser alone

\* The characters of the markdown texts parsed.
MdChars == {"x", " ", "*", "_", "U+0060", "[", "]", "(", ")", "!", "\n"}

\* The strings over chars of length at most max_len.
Strings(chars, max_len) == UNION { [1..len -> chars] : len \in 0..max_len }

Delimiters == {ITALIC_1, ITALIC_2, BOLD_1, BOLD_2, BITALIC_1, BITALIC_2, BACK_TICK}

\* A body alone, between a pair of equal delimiters, or after an opening
\* delimiter that is never closed.
DelimitedInputs ==
    { open \o body \o close :
        open \in Delimiters \cup {<<>>}, close \in Delimiters \cup {<<>>},
        body \in Strings(MdChars, MaxBodyLen) } 

\* [text](url) and ![text](url), text and url possibly empty.
LinkInputs ==
    { open \o text \o RIGHT_BRACKET \o LEFT_PARENTHESIS \o url \o RIGHT_PARENTHESIS :
        open \in {LEFT_BRACKET, LEFT_IMAGE},
        text \in Strings({"x", " ", "]", ")"}, MaxBodyLen),
        url \in Strings({"x", " ", "]", ")"}, MaxBodyLen) }

\* Bold with a delimiter character inside its body, and plain text before
\* the start of an image.
SampleInputs == { <<"*", "*", "x", "*", "x", "*", "*">>, <<"_", "_", "x", "_", "x", "_", "_">>, <<"x", "!", "[">> }

MdInputs == DelimitedInputs \cup LinkInputs \cup SampleInputs

ElementParsers ==
    { "parse_element_italic", "parse_element_bold", "parse_element_bold_italic",
      "parse_element_code", "parse_element_image", "parse_element_link",
      "parse_element_checkbox", "parse_element_plaintext" }

\* The result of the element parser called name on str.
parse_element(name, str) ==
    CASE name = "parse_element_italic" -> parse_element_italic(str)
      [] name = "parse_element_bold" -> parse_element_bold(str)
      [] name = "parse_element_bold_italic" -> parse_element_bold_italic(str)
      [] name = "parse_element_code" -> parse_element_code(str)
      [] name = "parse_element_image" -> parse_element_image(str)
      [] name = "parse_element_link" -> parse_element_link(str)
      [] name = "parse_element_checkbox" -> parse_element_checkbox(str)
      [] name = "parse_element_plaintext" -> parse_element_plaintext(str)

InitParser ==
    /\ editor_buffer = EditorBuffer_default("md")
    /\ editor_engine = EditorEngine_new(DefaultConfigOptions)
    /\ has_focus = EditorId
    /\ response = NoResponse
    /\ pipeline = render_pipeline_new
    /\ installed = editor_buffer
    /\ call = [name |-> "new"]
    /\ pushes = <<>>
    /\ input \in MdInputs
    /\ remainder = input
    /\ fragments = <<>>
    /\ fn_wrapper = FnWrapper_from
    /\ launcher = main_new(TRUE)

\* One of the element parsers is called on the text.
ParseElement ==
    /\ call.name = "new"
    /\ \E name \in ElementParsers :
          call' = [name |-> name, input |-> input, result |-> parse_element(name, input)]
    /\ UNCHANGED <<editor_buffer, editor_engine, has_focus, response, pipeline, installed, pushes, input, remainder, fragments, fn_wrapper, launcher>>

\* parse_element_markdown_inline is called on what is left of the text; the
\* fragment it returns is kept with the source text it was parsed from.
ParseInline ==
    /\ \/ call.name = "new"
       \/ /\ call.name = "parse_element_markdown_inline"
          /\ call.result.ok
          /\ remainder # <<>>
    /\ LET result == parse_element_markdown_inline(remainder)
       IN  /\ call' = [name |-> "parse_element_markdown_inline", input |-> remainder,
                       result |-> result]
           /\ remainder' = IF result.ok THEN result.rest ELSE remainder
           /\ fragments'
                 = IF result.ok
                   THEN Append(fragments,
                               [fragment |-> result.output,
                                source |-> SubSeq(remainder, 1,
                                                  Len(remainder) - Len(result.rest))])
                   ELSE fragments
    /\ UNCHANGED <<editor_buffer, editor_engine, has_focus, response, pipeline, installed, pushes, input, fn_wrapper, launcher>>

NextParser ==
    \/ ParseElement
    \/ ParseInline

SpecParser == InitParser /\ [][NextParser]_vars

\* ------------------------------------------------------------------ the fn wrapper alone

InitWrapper ==
    /\ editor_buffer = EditorBuffer_default("md")
    /\ editor_engine = EditorEngine_new(DefaultConfigOptions)
    /\ has_focus = EditorId
    /\ response = NoResponse
    /\ pipeline = render_pipeline_new
    /\ installed = editor_buffer
    /\ call = [name |-> "new"]
    /\ pushes = <<>>
    /\ input = <<>>
    /\ remainder = <<>>
    /\ fragments = <<>>
    /\ fn_wrapper = FnWrapper_from
    /\ launcher = main_new(TRUE)

OtherUnchanged ==
    UNCHANGED <<editor_buffer, editor_engine, has_focus, response, pipeline, installed, call, pushes, input, remainder, fragments, launcher>>

\* Thread t calls invoke: it clones the Arc (get_ref) and asks for the write
\* lock.
invoke(t) ==
    /\ fn_wrapper.threads[t] = Idle
    /\ fn_wrapper' = [fn_wrapper EXCEPT
                         !.threads[t] = [at |-> "wait", via |-> "invoke", guard |-> "write"]]
    /\ OtherUnchanged

\* The lock is free for a reader too: write() returns like read().
invoke_write_shared(t) ==
    /\ fn_wrapper.threads[t] = [at |-> "wait", via |-> "invoke", guard |-> "write"]
    /\ can_read(fn_wrapper.lock)
    /\ fn_wrapper' = [fn_wrapper EXCEPT
                         !.lock.readers = @ \cup {t},
                         !.threads[t] = [at |-> "call", via |-> "invoke", guard |-> "write"]]
    /\ OtherUnchanged

\* write().unwrap() in invoke: the write lock is granted when nobody holds
\* the lock; on a poisoned lock unwrap panics and the guard is dropped.
invoke_write(t) ==
    /\ fn_wrapper.threads[t] = [at |-> "wait", via |-> "invoke", guard |-> "write"]
    /\ can_write(fn_wrapper.lock)
    /\ fn_wrapper'
          = IF fn_wrapper.lock.poisoned
            THEN [fn_wrapper EXCEPT !.threads[t] = Panicked]
            ELSE [fn_wrapper EXCEPT
                     !.lock.writer = t,
                     !.threads[t] = [at |-> "call", via |-> "invoke", guard |-> "write"]]
    /\ OtherUnchanged

\* The wrapped function returns and invoke drops its guard.
invoke_return(t) ==
    /\ fn_wrapper.threads[t] = [at |-> "call", via |-> "invoke", guard |-> "write"]
    /\ fn_wrapper' = [fn_wrapper EXCEPT
                         !.lock = unlock(fn_wrapper.lock, t),
                         !.threads[t] = Idle]
    /\ OtherUnchanged

\* The wrapped function panics: the write guard is dropped while the thread
\* unwinds, which poisons the lock.
invoke_panic(t) ==
    /\ fn_wrapper.threads[t] = [at |-> "call", via |-> "invoke", guard |-> "write"]
    /\ fn_wrapper' = [fn_wrapper EXCEPT
                         !.lock = [unlock(fn_wrapper.lock, t) EXCEPT !.poisoned = TRUE],
                         !.threads[t] = Panicked]
    /\ OtherUnchanged

\* Thread t takes a handle with get_ref and asks it for the read lock or the
\* write lock.
get_ref(t) ==
    /\ fn_wrapper.threads[t] = Idle
    /\ \E guard \in {"read", "write"} :
          fn_wrapper' = [fn_wrapper EXCEPT
                            !.threads[t] = [at |-> "wait", via |-> "get_ref", guard |-> guard]]
    /\ OtherUnchanged

\* read().unwrap() or write().unwrap() on the handle: the lock is granted,
\* and the holder calls the wrapped function through the guard.
handle_lock(t) ==
    /\ fn_wrapper.threads[t].at = "wait"
    /\ fn_wrapper.threads[t].via = "get_ref"
    /\ IF fn_wrapper.threads[t].guard = "write"
       THEN can_write(fn_wrapper.lock)
       ELSE can_read(fn_wrapper.lock)
    /\ fn_wrapper'
          = IF fn_wrapper.lock.poisoned
            THEN [fn_wrapper EXCEPT !.threads[t] = Panicked]
            ELSE IF fn_wrapper.threads[t].guard = "write"
            THEN [fn_wrapper EXCEPT !.lock.writer = t, !.threads[t].at = "call"]
            ELSE [fn_wrapper EXCEPT !.lock.readers = @ \cup {t}, !.threads[t].at = "call"]
    /\ OtherUnchanged

\* The call through the handle returns and the guard is dropped.
handle_return(t) ==
    /\ fn_wrapper.threads[t].at = "call"
    /\ fn_wrapper.threads[t].via = "get_ref"
    /\ fn_wrapper' = [fn_wrapper EXCEPT
                         !.lock = unlock(fn_wrapper.lock, t),
                         !.threads[t] = Idle]
    /\ OtherUnchanged

\* The call through the handle panics: a write guard dropped in the
\* unwinding poisons the lock, a read guard does not.
handle_panic(t) ==
    /\ fn_wrapper.threads[t].at = "call"
    /\ fn_wrapper.threads[t].via = "get_ref"
    /\ fn_wrapper' = [fn_wrapper EXCEPT
                         !.lock = [unlock(fn_wrapper.lock, t) EXCEPT
                                      !.poisoned = @ \/ fn_wrapper.threads[t].guard = "write"],
                         !.threads[t] = Panicked]
    /\ OtherUnchanged

\* A lock is granted to one of the threads that wait for it.
Granted == \E t \in Threads : invoke_write(t) \/ handle_lock(t)

\* The call of the wrapped function thread t makes comes to its end.
Ended(t) == invoke_return(t) \/ invoke_panic(t) \/ handle_return(t) \/ handle_panic(t)

NextWrapper ==
    \/ \E t \in Threads : invoke(t)
    \/ \E t \in Threads : invoke_write(t)
    \/ \E t \in Threads : invoke_return(t)
    \/ \E t \in Threads : invoke_panic(t)
    \/ \E t \in Threads : get_ref(t)
    \/ \E t \in Threads : handle_lock(t)
    \/ \E t \in Threads : handle_return(t)
    \/ \E t \in Threads : handle_panic(t)

\* The wrapped function ends every call, and a lock that is free is granted
\* to some thread that waits for it; which one, RwLock does not say.
SpecWrapper ==
    /\ InitWrapper
    /\ [][NextWrapper]_vars
    /\ WF_vars(Granted)
    /\ \A t \in Threads : WF_vars(Ended(t))

\* ------------------------------------------------------------------ the demo launcher alone

InitLauncher ==
    /\ editor_buffer = EditorBuffer_default("md")
    /\ editor_engine = EditorEngine_new(DefaultConfigOptions)
    /\ has_focus = EditorId
    /\ response = NoResponse
    /\ pipeline = render_pipeline_new
    /\ installed = editor_buffer
    /\ call = [name |-> "new"]
    /\ pushes = <<>>
    /\ input = <<>>
    /\ remainder = <<>>
    /\ fragments = <<>>
    /\ fn_wrapper = FnWrapper_from
    /\ launcher \in { main_new(raw_mode) : raw_mode \in BOOLEAN }

LauncherUnchanged ==
    UNCHANGED <<editor_buffer, editor_engine, has_focus, response, pipeline, installed, call, pushes, input, remainder, fragments, fn_wrapper>>

\* get_readline_event can be awaited: the loop runs.
Awaiting == launcher.pc = "loop" /\ Len(launcher.events) < MaxEvents

\* Ok(ReadlineEvent::Line(input)): the selected example runs; an error
\* breaks the loop, otherwise raw mode is enabled again, and main returns
\* the error of enable_raw_mode when that fails.
ReadlineEvent_Line ==
    /\ Awaiting
    /\ \E selection \in Selections, run_app \in {"ok", "err"}, enable_raw_mode \in {"ok", "err"} :
          LET ran == run_user_selected_example(selection, run_app, launcher.raw_mode)
              named == AutoCompleteCommand_from_str(selection)
              event == [event |-> "Line", selection |-> selection,
                        run_app |-> IF named.ok /\ named.command # "Exit" THEN run_app
                                    ELSE "none",
                        enable_raw_mode |-> IF ran.ok THEN enable_raw_mode ELSE "none"]
          IN  launcher'
                = IF ~ran.ok
                  THEN [pc |-> "ok", raw_mode |-> ran.raw_mode,
                        events |-> Append(launcher.events, event)]
                  ELSE IF enable_raw_mode = "err"
                  THEN [pc |-> "err", raw_mode |-> ran.raw_mode,
                        events |-> Append(launcher.events, event)]
                  ELSE [pc |-> "loop", raw_mode |-> TRUE,
                        events |-> Append(launcher.events, event)]
    /\ LauncherUnchanged

\* Ok(ReadlineEvent::Eof) or Ok(ReadlineEvent::Interrupted): break.
ReadlineEvent_Eof_or_Interrupted ==
    /\ Awaiting
    /\ \E event \in {"Eof", "Interrupted"} :
          launcher' = [launcher EXCEPT
                          !.pc = "ok",
                          !.events = Append(@, [event |-> event])]
    /\ LauncherUnchanged

\* Ok(ReadlineEvent::Resized): the loop goes on.
ReadlineEvent_Resized ==
    /\ Awaiting
    /\ launcher' = [launcher EXCEPT !.events = Append(@, [event |-> "Resized"])]
    /\ LauncherUnchanged

\* Err(_) from get_readline_event: break.
ReadlineEvent_Err ==
    /\ Awaiting
    /\ launcher' = [launcher EXCEPT !.pc = "ok", !.events = Append(@, [event |-> "Err"])]
    /\ LauncherUnchanged

NextLauncher ==
    \/ ReadlineEvent_Line
    \/ ReadlineEvent_Eof_or_Interrupted
    \/ ReadlineEvent_Resized
    \/ ReadlineEvent_Err

SpecLauncher == InitLauncher /\ [][NextLauncher]_vars

\* ------------------------------------------------------------------ properties

AppliedNow == call.name = "apply_event" /\ response.kind = "Applied"

RenderedNow == call.name = "render_engine"

Viewport == editor_engine.current_box.style_adjusted_bounds_size

IsPaint(op) == op.op = "PaintTextWithAttributes"

IsReversePaint(op) == IsPaint(op) /\ op.style = ReverseStyle

IsContentPaint(op) == IsPaint(op) /\ op.style # ReverseStyle

\* The ops of the one RenderOps a content render pushes to ZOrder::Normal.
NormalOps == pipeline["Normal"][1]

\* C1: apply_event leaves the buffer the caller passed in as it was, the
\* mutation being made on a clone that is returned as Applied(new_buffer);
\* a caller that drops the returned value holds the buffer it held before
\* the call.
C1_ApplyEventKeepsCallerBuffer ==
    /\ call.name \in {"apply_event", "drop"} => editor_buffer = call.editor_buffer
    /\ (call.name = "apply_event" /\ EditorEvent_try_from(call.input_event).ok)
           => /\ response.kind = "Applied"
              /\ response.buffer =
                     apply_editor_event(editor_engine, call.editor_buffer,
                                        EditorEvent_try_from(call.input_event).event)

\* An Applied buffer that differs from the caller's was dropped.
C1_Witness ==
    /\ call.name = "drop"
    /\ call.dropped.kind = "Applied"
    /\ call.dropped.buffer.lines # editor_buffer.lines
    /\ editor_buffer.lines # <<>>

\* C2: when the InputEvent does not convert to an EditorEvent, apply_event
\* returns Ok(NotApplied), hands back no buffer and leaves the caller's
\* buffer as it was.
C2_NotAppliedOnFailedConversion ==
    (call.name = "apply_event" /\ ~EditorEvent_try_from(call.input_event).ok)
        => /\ response.kind = "NotApplied"
           /\ response.result = "Ok"
           /\ "buffer" \notin DOMAIN response
           /\ editor_buffer = call.editor_buffer

\* An event that does not convert was given for a buffer with content.
C2_Witness ==
    /\ call.name = "apply_event"
    /\ call.input_event.kind = "Resize"
    /\ response.kind = "NotApplied"
    /\ Len(editor_buffer.lines) = 2

CaretValid(buffer) ==
    /\ buffer.caret.row_index < Max(1, Len(buffer.lines))
    /\ buffer.caret.col_index <= Len(line_at_caret(buffer))
    /\ buffer.lines = <<>> => buffer.caret = position(0, 0)

\* C3: every buffer returned as Applied has its caret on a valid position:
\* caret.row_index < max(1, number of lines), caret.col_index <= grapheme
\* count of the caret's line, and caret = (0,0) when there are no lines.
C3_AppliedCaretValid == response.kind = "Applied" => CaretValid(response.buffer)

\* The caret moved up onto a shorter line and its column was brought back
\* onto that line.
C3_Witness ==
    /\ AppliedNow
    /\ call.input_event = [kind |-> "Keyboard", key |-> "Up"]
    /\ response.buffer.caret.row_index < call.editor_buffer.caret.row_index
    /\ response.buffer.caret.col_index < call.editor_buffer.caret.col_index

InScrollWindow(buffer, viewport) ==
    LET caret == buffer.caret
        scroll == buffer.scroll_offset
    IN  /\ scroll.row_index <= caret.row_index
        /\ caret.row_index < scroll.row_index + viewport.row_count
        /\ scroll.col_index <= caret.col_index
        /\ \/ caret.col_index < scroll.col_index + viewport.col_count
           \/ /\ caret.col_index = Len(line_at_caret(buffer))
              /\ caret.col_index <= scroll.col_index + viewport.col_count

\* C4 as stated: after any sequence of apply_event calls every buffer
\* returned as Applied keeps the caret inside the scroll window of the
\* engine's current_box size.
C4_AppliedCaretInScrollWindow ==
    AppliedNow => InScrollWindow(response.buffer, Viewport)

\* C4, amended: the same, once render_engine has set current_box to a
\* viewport of at least one row and one column.
C4_AppliedCaretInScrollWindowOfRenderedBox ==
    (AppliedNow /\ Viewport.row_count >= 1 /\ Viewport.col_count >= 1)
        => InScrollWindow(response.buffer, Viewport)

\* An event scrolled a rendered one-row viewport down to the caret.
C4_Witness ==
    /\ AppliedNow
    /\ Viewport = size(2, 1)
    /\ response.buffer.scroll_offset.row_index = 1
    /\ call.editor_buffer.scroll_offset.row_index = 0

\* C5: each apply_event works on the buffer produced by the Applied results
\* installed before it, and render_engine renders that buffer.
C5_EventsInArrivalOrder ==
    /\ call.name = "apply_event" => call.editor_buffer = installed
    /\ AppliedNow =>
           response.buffer =
               apply_editor_event(editor_engine, installed,
                                  EditorEvent_try_from(call.input_event).event)
    /\ RenderedNow =>
           /\ call.editor_buffer = installed
           /\ pipeline = render_engine(installed, editor_engine, has_focus,
                                       call.flex_box, call.failing_lines).pipeline

\* A render of the buffer that three installed events (a, Enter, a) produced.
C5_Witness ==
    /\ RenderedNow
    /\ installed.lines = << <<"a">>, <<"a">> >>
    /\ \E i \in DOMAIN NormalOps :
          IsContentPaint(NormalOps[i]) /\ NormalOps[i].text = <<"a">>

\* C6: render_engine leaves lines, caret, scroll offset and file extension
\* of the buffer as they were.
C6_RenderKeepsBuffer ==
    RenderedNow =>
        /\ editor_buffer.lines = call.editor_buffer.lines
        /\ editor_buffer.caret = call.editor_buffer.caret
        /\ editor_buffer.scroll_offset = call.editor_buffer.scroll_offset
        /\ editor_buffer.file_extension = call.editor_buffer.file_extension

\* A scrolled buffer was rendered with content and caret.
C6_Witness ==
    /\ RenderedNow
    /\ ~is_empty(editor_buffer)
    /\ editor_buffer.scroll_offset # position(0, 0)
    /\ has_focus = editor_engine.current_box.id

AllOps ==
    Flatten(pipeline["Deferred"]) \o Flatten(pipeline["Normal"])
        \o Flatten(pipeline["Glass"]) \o Flatten(pipeline["Caret"])

\* C7: for an empty buffer render_engine returns the empty-state pipeline
\* with no content or caret ops; otherwise a pipeline whose only populated
\* layer is Normal, holding one RenderOps in which every content op
\* precedes every caret op.
C7_RenderPipelineShape ==
    RenderedNow =>
        IF is_empty(editor_buffer)
        THEN /\ Len(pipeline["Normal"]) >= 1
             /\ \E i \in DOMAIN pipeline["Normal"][1] :
                   /\ IsPaint(pipeline["Normal"][1][i])
                   /\ pipeline["Normal"][1][i].text = NoContentAdded
             /\ \A i \in DOMAIN AllOps :
                   /\ ~IsReversePaint(AllOps[i])
                   /\ IsPaint(AllOps[i]) => AllOps[i].text \in {NoContentAdded, EyesEmoji}
                   /\ AllOps[i].op = "ApplyColors" => AllOps[i].style = RedStyle
        ELSE /\ pipeline["Deferred"] = <<>>
             /\ pipeline["Glass"] = <<>>
             /\ pipeline["Caret"] = <<>>
             /\ Len(pipeline["Normal"]) = 1
             /\ \A i \in DOMAIN NormalOps :
                   IsPaint(NormalOps[i]) => NormalOps[i].text # NoContentAdded
             /\ \A i, j \in DOMAIN NormalOps :
                   (/\ IsReversePaint(NormalOps[i])
                    /\ \/ NormalOps[j].op = "ApplyColors"
                       \/ IsContentPaint(NormalOps[j]))
                       => j < i

\* Two lines and the caret were rendered.
C7_Witness ==
    /\ RenderedNow
    /\ ~is_empty(editor_buffer)
    /\ \E i \in DOMAIN NormalOps : IsReversePaint(NormalOps[i])
    /\ Cardinality({ i \in DOMAIN NormalOps : IsContentPaint(NormalOps[i]) }) >= 2

\* C8: in the no-highlight path content rendering emits no more than
\* max_rows PrintTextWithAttributes ops, max_rows being
\* current_box.style_adjusted_bounds_size.row_count.
C8_ContentPrintsAtMostMaxRows ==
    (RenderedNow /\ ~is_empty(editor_buffer)
        /\ ~editor_engine.config_options.syntax_highlight)
        => Cardinality({ i \in DOMAIN NormalOps : IsContentPaint(NormalOps[i]) })
               <= Viewport.row_count

\* Every line of the render took the fallback path: highlighting is off,
\* or the file extension has no syntax, or the highlighter failed on every
\* line.
FallbackRender ==
    /\ RenderedNow
    /\ ~is_empty(editor_buffer)
    /\ \/ ~editor_engine.config_options.syntax_highlight
       \/ editor_buffer.file_extension \notin editor_engine.syntax_set
       \/ \A i \in DOMAIN editor_buffer.lines :
             editor_buffer.lines[i] \in call.failing_lines

\* The ops of the content: all of them but the four of the caret.
ContentOps ==
    IF has_focus = editor_engine.current_box.id
    THEN SubSeq(NormalOps, 1, Len(NormalOps) - 4)
    ELSE NormalOps

\* The graphemes of line with index in [start, start + count).
GraphemesFrom(line, start, count) ==
    [k \in 1..Min(count, Monus(Len(line), start)) |-> line[start + k]]

\* C9: in the no-highlight path each painted line contributes
\* MoveCursorPositionRelTo(origin, (0, i)), ApplyColors(computed style),
\* PrintTextWithAttributes(clipped line, computed style), ResetColor, in
\* that order; for buffer ["hello"], scroll (0,0), viewport (10,2),
\* unfocused, no style, the Normal layer begins Move(origin,(0,0)),
\* ApplyColors(None), Print("hello", None), ResetColor.
C9_FallbackLineOps ==
    FallbackRender =>
        LET box == editor_engine.current_box
            scroll == editor_buffer.scroll_offset
            painted == Len(ContentOps) \div 4
        IN  /\ Len(ContentOps) = 4 * painted
            /\ painted >= 1
            /\ \A i \in 0..(painted - 1) :
                  /\ ContentOps[4 * i + 1]
                         = [op |-> "MoveCursorPositionRelTo",
                            origin |-> box.style_adjusted_origin_pos,
                            rel |-> position(0, i)]
                  /\ ContentOps[4 * i + 2]
                         = [op |-> "ApplyColors", style |-> box.maybe_computed_style]
                  /\ ContentOps[4 * i + 3]
                         = [op |-> "PaintTextWithAttributes",
                            text |-> GraphemesFrom(
                                         editor_buffer.lines[scroll.row_index + i + 1],
                                         scroll.col_index,
                                         box.style_adjusted_bounds_size.col_count),
                            style |-> box.maybe_computed_style]
                  /\ ContentOps[4 * i + 4] = [op |-> "ResetColor"]
            /\ (/\ editor_buffer.lines = <<Hello>>
                /\ scroll = position(0, 0)
                /\ box.style_adjusted_bounds_size = size(10, 2)
                /\ has_focus # box.id
                /\ box.maybe_computed_style = "None")
                   => SubSeq(NormalOps, 1, 4)
                          = << [op |-> "MoveCursorPositionRelTo",
                                origin |-> box.style_adjusted_origin_pos,
                                rel |-> position(0, 0)],
                               [op |-> "ApplyColors", style |-> "None"],
                               [op |-> "PaintTextWithAttributes", text |-> Hello,
                                style |-> "None"],
                               [op |-> "ResetColor"] >>

\* The scenario: ["hello"] rendered unfocused into a (10,2) viewport.
C9_Witness ==
    /\ FallbackRender
    /\ editor_buffer.lines = <<Hello>>
    /\ editor_buffer.scroll_offset = position(0, 0)
    /\ Viewport = size(10, 2)
    /\ has_focus # editor_engine.current_box.id
    /\ editor_engine.current_box.maybe_computed_style = "None"

\* The texts the content prints, in order.
ContentTexts ==
    LET paints == SelectSeq(ContentOps, IsPaint)
    IN  [i \in DOMAIN paints |-> paints[i].text]

\* C10: the text printed for a line is its graphemes with index in
\* [scroll_offset.col_index, scroll_offset.col_index + max_cols), one print
\* per line, so it is never wider than max_cols; "0123456789" at
\* scroll.col = 3 with max_cols = 4 prints "3456", and a line shorter than
\* scroll_offset.col_index prints the empty string.
C10_HorizontalClip ==
    FallbackRender =>
        LET scroll == editor_buffer.scroll_offset
            max_cols == Viewport.col_count
            lines == editor_buffer.lines
        IN  /\ Len(ContentTexts) <= Len(lines) - scroll.row_index
            /\ Len(ContentTexts)
                   = Cardinality({ i \in DOMAIN ContentOps :
                                     ContentOps[i].op = "MoveCursorPositionRelTo" })
            /\ \A i \in DOMAIN ContentTexts :
                  LET line == lines[scroll.row_index + i]
                      text == ContentTexts[i]
                  IN  /\ Len(text) <= max_cols
                      /\ Len(text) = Min(max_cols, Monus(Len(line), scroll.col_index))
                      /\ \A k \in DOMAIN text : text[k] = line[scroll.col_index + k]
                      /\ Len(line) <= scroll.col_index => text = <<>>
                      /\ (line = Digits /\ scroll.col_index = 3 /\ max_cols = 4)
                             => text = <<"3", "4", "5", "6">>

\* "0123456789" printed as "3456" and the shorter "ab" as the empty string.
C10_Witness ==
    /\ FallbackRender
    /\ editor_buffer.lines = <<Hello, Digits, Ab>>
    /\ editor_buffer.scroll_offset = position(3, 1)
    /\ Viewport.col_count = 4
    /\ ContentTexts = << <<"3", "4", "5", "6">>, <<>> >>

\* Every line of the render took the syntax-highlighted path.
HighlightedRender ==
    /\ RenderedNow
    /\ ~is_empty(editor_buffer)
    /\ editor_engine.config_options.syntax_highlight
    /\ editor_buffer.file_extension \in editor_engine.syntax_set
    /\ call.failing_lines = {}

MoveIndexes == { i \in DOMAIN ContentOps : ContentOps[i].op = "MoveCursorPositionRelTo" }

\* The index in ContentOps of the move that starts the k-th painted line.
NthMove(k) == CHOOSE i \in MoveIndexes : Cardinality({ j \in MoveIndexes : j <= i }) = k

\* The ops of the k-th painted line after its move.
LineOps(k) ==
    SubSeq(ContentOps, NthMove(k) + 1,
           IF k < Cardinality(MoveIndexes) THEN NthMove(k + 1) - 1 ELSE Len(ContentOps))

\* The styled spans the k-th painted line prints, in order.
LinePaints(k) ==
    LET paints == SelectSeq(LineOps(k), IsPaint)
    IN  [i \in DOMAIN paints |-> [style |-> paints[i].style, text |-> paints[i].text]]

\* The column the i-th span of spans starts at.
SpanStart(spans, i) == Len(Flatten([j \in 1..(i - 1) |-> spans[j].text]))

\* C11: clip(col_start, max_cols) on the styled spans of a line drops every
\* span wholly before col_start or wholly at or beyond col_start + max_cols,
\* cuts a partially overlapping span to the graphemes inside the window,
\* keeps each span's style and the spans' order, and yields spans whose
\* total width is at most max_cols.
C11_ClipStyledSpans ==
    HighlightedRender =>
        \A k \in 1..Cardinality(MoveIndexes) :
            LET line == editor_buffer.lines[editor_buffer.scroll_offset.row_index + k]
                spans == from_syntect_to_tui(highlight_line(line, {}).spans)
                col_start == editor_buffer.scroll_offset.col_index
                max_cols == Viewport.col_count
                kept == { i \in DOMAIN spans :
                            /\ SpanStart(spans, i) < col_start + max_cols
                            /\ SpanStart(spans, i) + Len(spans[i].text) > col_start }
                clipped == LinePaints(k)
            IN  /\ Len(clipped) = Cardinality(kept)
                /\ \A i \in kept :
                      LET rank == Cardinality({ j \in kept : j <= i })
                          lo == Max(col_start, SpanStart(spans, i))
                          hi == Min(col_start + max_cols,
                                    SpanStart(spans, i) + Len(spans[i].text))
                      IN  /\ clipped[rank].style = spans[i].style
                          /\ clipped[rank].text = GraphemesFrom(line, lo, hi - lo)
                /\ Len(Flatten([i \in DOMAIN clipped |-> clipped[i].text])) <= max_cols

\* "hello" scrolled to column 2 in a 1-column viewport: the span "h" is
\* dropped and the span "ello" is cut to "l".
C11_Witness ==
    /\ HighlightedRender
    /\ editor_buffer.lines = <<Hello>>
    /\ editor_buffer.scroll_offset = position(2, 0)
    /\ Viewport.col_count = 1
    /\ LinePaints(1) = << [style |-> "T2", text |-> <<"l">>] >>

\* The k-th painted line of the render meets the three conditions of the
\* syntax-highlighted path.
HighlightConditions(k) ==
    /\ editor_engine.config_options.syntax_highlight
    /\ editor_buffer.file_extension \in editor_engine.syntax_set
    /\ editor_buffer.lines[editor_buffer.scroll_offset.row_index + k]
           \notin call.failing_lines

\* The k-th painted line went through the syntax-highlighted path: styled
\* spans only, each with its colors applied and reset.
HighlightedLine(k) ==
    LET ops == LineOps(k)
        spans == (Len(ops) - 1) \div 3
    IN  /\ Len(ops) = 3 * spans + 1
        /\ ops[Len(ops)] = ResetColor
        /\ \A i \in 0..(spans - 1) :
              /\ ops[3 * i + 2].style \in {"T1", "T2"}
              /\ ops[3 * i + 1] = ApplyColors(ops[3 * i + 2].style)
              /\ IsPaint(ops[3 * i + 2])
              /\ ops[3 * i + 3] = ResetColor

\* The k-th painted line went through the unstyled fallback: one paint of
\* the clipped line in the box's computed style.
FallbackLine(k) ==
    LET style == editor_engine.current_box.maybe_computed_style
        line == editor_buffer.lines[editor_buffer.scroll_offset.row_index + k]
    IN  LineOps(k)
            = << ApplyColors(style),
                 PaintTextWithAttributes(
                     GraphemesFrom(line, editor_buffer.scroll_offset.col_index,
                                   Viewport.col_count),
                     style),
                 ResetColor >>

\* C12: a line is rendered through the syntax-highlighted path if and only
\* if syntax highlighting is enabled in the config, a syntax reference
\* exists for the buffer's file extension and highlighting that line
\* succeeds; otherwise exactly that line is rendered by the unstyled
\* fallback, the other lines of the render are unaffected, and the render
\* still returns its pipeline with every line of the loop painted.
C12_HighlightPathPerLine ==
    (RenderedNow /\ ~is_empty(editor_buffer)) =>
        /\ Len(pipeline["Normal"]) = 1
        /\ Cardinality(MoveIndexes)
               = Min(Len(editor_buffer.lines) - editor_buffer.scroll_offset.row_index,
                     Viewport.row_count + 1)
        /\ \A k \in 1..Cardinality(MoveIndexes) :
              /\ HighlightConditions(k) <=> HighlightedLine(k)
              /\ ~HighlightConditions(k) <=> FallbackLine(k)

\* The highlighter fails on "0123456789" alone: that line is painted by the
\* fallback between two highlighted lines.
C12_Witness ==
    /\ RenderedNow
    /\ editor_buffer.lines = <<Hello, Digits, Ab>>
    /\ editor_buffer.scroll_offset = position(0, 0)
    /\ call.failing_lines = {Digits}
    /\ Cardinality(MoveIndexes) = 3
    /\ HighlightedLine(1) /\ FallbackLine(2) /\ HighlightedLine(3)
    /\ ~FallbackLine(1) /\ ~HighlightedLine(2)

\* The lines the loop of render_content visits.
LinesVisited ==
    Min(Len(editor_buffer.lines) - editor_buffer.scroll_offset.row_index,
        Viewport.row_count + 1)

CountOps(ops, Test(_)) == Cardinality({ i \in DOMAIN ops : Test(ops[i]) })

IsMove(op) == op.op = "MoveCursorPositionRelTo"

\* C13: render_caret emits caret ops if and only if the engine's current_box
\* id has focus; when focused they are exactly MoveCursorPositionRelTo(origin,
\* caret Raw), PrintTextWithAttributes(g, reverse style),
\* MoveCursorPositionRelTo(origin, caret Raw), ResetColor: two moves and one
\* reverse-attribute print, g being the grapheme cluster under the caret or
\* the fallback character U+2592 when the caret is past the end of the line.
C13_CaretOps ==
    (RenderedNow /\ ~is_empty(editor_buffer)) =>
        LET box == editor_engine.current_box
            caret == editor_buffer.caret
            scroll == editor_buffer.scroll_offset
            line == editor_buffer.lines[caret.row_index + 1]
            g == IF caret.col_index < Len(line)
                 THEN << line[caret.col_index + 1] >>
                 ELSE << "U+2592" >>
            move == [op |-> "MoveCursorPositionRelTo",
                     origin |-> box.style_adjusted_origin_pos,
                     rel |-> position(caret.col_index - scroll.col_index,
                                      caret.row_index - scroll.row_index)]
            n == Len(NormalOps)
        IN  IF has_focus = box.id
            THEN /\ n >= 4
                 /\ SubSeq(NormalOps, n - 3, n)
                       = << move,
                            [op |-> "PaintTextWithAttributes", text |-> g,
                             style |-> "reverse"],
                            move,
                            [op |-> "ResetColor"] >>
                 /\ CountOps(NormalOps, IsReversePaint) = 1
                 /\ CountOps(NormalOps, IsMove) = LinesVisited + 2
            ELSE /\ CountOps(NormalOps, IsReversePaint) = 0
                 /\ CountOps(NormalOps, IsMove) = LinesVisited

\* The focused editor paints the caret past the end of "ab" with the
\* fallback character.
C13_Witness ==
    /\ RenderedNow
    /\ has_focus = editor_engine.current_box.id
    /\ editor_buffer.lines = <<Hello, Digits, Ab>>
    /\ editor_buffer.caret = position(2, 2)
    /\ \E i \in DOMAIN NormalOps :
          IsReversePaint(NormalOps[i]) /\ NormalOps[i].text = DEFAULT_CURSOR_CHAR

\* C14: the empty-state pipeline paints "No content added" in red at
\* relative position (0,0) of the box origin on the Normal layer; if and only
\* if the box has focus it paints the eyes emoji after it, one row below the
\* origin and never beyond the viewport's row_count; it holds no caret op
\* and no buffer-line op.
C14_EmptyStatePipeline ==
    (RenderedNow /\ is_empty(editor_buffer)) =>
        LET box == editor_engine.current_box
            normal == pipeline["Normal"]
            emoji_row == IF box.style_adjusted_bounds_size.row_count >= 1 THEN 1 ELSE 0
        IN  /\ pipeline["Deferred"] = <<>>
            /\ pipeline["Glass"] = <<>>
            /\ pipeline["Caret"] = <<>>
            /\ Len(normal) >= 1
            /\ normal[1]
                  = << [op |-> "MoveCursorPositionRelTo",
                        origin |-> box.style_adjusted_origin_pos,
                        rel |-> position(0, 0)],
                       [op |-> "ApplyColors", style |-> "red"],
                       [op |-> "PaintTextWithAttributes",
                        text |-> <<"N", "o", " ", "c", "o", "n", "t", "e", "n", "t", " ",
                                   "a", "d", "d", "e", "d">>,
                        style |-> "None"],
                       [op |-> "ResetColor"] >>
            /\ has_focus = box.id <=> Len(normal) = 2
            /\ has_focus # box.id <=> Len(normal) = 1
            /\ Len(normal) = 2 =>
                  /\ normal[2]
                        = << [op |-> "MoveCursorPositionRelTo",
                              origin |-> box.style_adjusted_origin_pos,
                              rel |-> position(0, emoji_row)],
                             [op |-> "PaintTextWithAttributes", text |-> <<"U+1F440">>,
                              style |-> "None"],
                             [op |-> "ResetColor"] >>
                  /\ emoji_row <= box.style_adjusted_bounds_size.row_count
            /\ CountOps(AllOps, IsReversePaint) = 0
            /\ CountOps(AllOps, IsPaint) = Len(normal)

\* A focused empty editor in a viewport of several rows: the emoji is
\* painted on row 1.
C14_Witness ==
    /\ RenderedNow
    /\ is_empty(editor_buffer)
    /\ has_focus = editor_engine.current_box.id
    /\ Viewport.row_count >= 2
    /\ Len(pipeline["Normal"]) = 2
    /\ pipeline["Normal"][2][1].rel = position(0, 1)

\* The rank of a layer in the order a backend drains them.
ZRank(z_order) ==
    CASE z_order = "Deferred" -> 0
      [] z_order = "Normal" -> 1
      [] z_order = "Glass" -> 2
      [] z_order = "Caret" -> 3

\* C15: push(z, ops) appends to layer z without reordering or dropping
\* earlier pushes, and a backend drains all Deferred ops, then Normal, then
\* Glass, then Caret, each layer in insertion order: every op pushed is
\* drained once, two ops pushed to the same layer are drained in push order,
\* and an op of a lower layer is drained before any op of a higher layer.
C15_PushAndDrainOrder ==
    call.name = "drain" =>
        LET drained == call.drained
            pushed == call.pushes
            Slots == { <<i, a>> : i \in DOMAIN pushed, a \in 1..2 }
            Ops == { s \in Slots : s[2] <= Len(pushed[s[1]].render_ops) }
            At(s) == pushed[s[1]].render_ops[s[2]]
            Pos(s) == CHOOSE p \in DOMAIN drained : drained[p] = At(s)
        IN  /\ Len(drained) = Cardinality(Ops)
            /\ \A s \in Ops : \E p \in DOMAIN drained : drained[p] = At(s)
            /\ \A s, t \in Ops :
                  LET zs == pushed[s[1]].z_order
                      zt == pushed[t[1]].z_order
                  IN  (\/ ZRank(zs) < ZRank(zt)
                       \/ zs = zt /\ s[1] < t[1]
                       \/ s[1] = t[1] /\ s[2] < t[2])
                          => Pos(s) < Pos(t)

\* Three pushes were drained: one to Caret, then two to Normal.
C15_Witness ==
    /\ call.name = "drain"
    /\ Len(call.pushes) = 3
    /\ call.pushes[1].z_order = "Caret"
    /\ call.pushes[2].z_order = "Normal"
    /\ call.pushes[3].z_order = "Normal"
    /\ Len(call.drained) >= 4

\* C16: after render_engine(args, flex_box) returns, for an empty or a
\* non-empty buffer, engine.current_box holds exactly flex_box's id,
\* style-adjusted origin, style-adjusted bounds size and computed style, and
\* viewport_width() / viewport_height() return that size's col_count /
\* row_count; no step but a render changes current_box; and a render into
\* the FlexBox converted from current_box converts back to the same four
\* fields.
C16_CurrentBoxSnapshot ==
    /\ [](RenderedNow =>
            /\ editor_engine.current_box
                  = [ id |-> call.flex_box.id,
                      style_adjusted_origin_pos |-> call.flex_box.style_adjusted_origin_pos,
                      style_adjusted_bounds_size |-> call.flex_box.style_adjusted_bounds_size,
                      maybe_computed_style |-> call.flex_box.computed_style ]
            /\ viewport_width(editor_engine)
                  = call.flex_box.style_adjusted_bounds_size.col_count
            /\ viewport_height(editor_engine)
                  = call.flex_box.style_adjusted_bounds_size.row_count)
    /\ [][ /\ call'.name # "render_engine"
                 => /\ editor_engine'.current_box = editor_engine.current_box
                    /\ viewport_width(editor_engine') = viewport_width(editor_engine)
                    /\ viewport_height(editor_engine') = viewport_height(editor_engine)
           /\ (call.name = "render_engine" /\ call'.name = "render_engine"
                  /\ call'.flex_box.bounds_size = size(0, 0))
                 => editor_engine'.current_box = editor_engine.current_box ]_vars

\* A styled box of one column and two rows was rendered into, converted to
\* a FlexBox and rendered into again.
C16_Witness ==
    /\ RenderedNow
    /\ call.flex_box.bounds_size = size(0, 0)
    /\ editor_engine.current_box
          = [ id |-> EditorId,
              style_adjusted_origin_pos |-> position(1, 1),
              style_adjusted_bounds_size |-> size(1, 2),
              maybe_computed_style |-> "S1" ]

InlineCalled == call.name = "parse_element_markdown_inline"

\* str is body wrapped in open and close, the body not empty.
Wrapped(str, open, close) ==
    /\ Len(str) > Len(open) + Len(close)
    /\ SubSeq(str, 1, Len(open)) = open
    /\ SubSeq(str, Len(str) - Len(close) + 1, Len(str)) = close

BodyOf(str, open, close) == SubSeq(str, Len(open) + 1, Len(str) - Len(close))

\* No character of text belongs to a delimiter.
DelimiterFree(text) ==
    Range(text) \cap {"*", "_", "U+0060", "[", "]", "(", ")", "!"} = {}

\* The results of the eight element parsers on str, as fragments, in the
\* order of the dispatcher.
ElementResults(str) ==
    << map_fragment(parse_element_italic(str), "Italic"),
       map_fragment(parse_element_bold(str), "Bold"),
       map_fragment(parse_element_bold_italic(str), "BoldItalic"),
       map_fragment(parse_element_code(str), "InlineCode"),
       map_fragment(parse_element_image(str), "Image"),
       map_fragment(parse_element_link(str), "Link"),
       map_fragment(parse_element_checkbox(str), "Checkbox"),
       map_fragment(parse_element_plaintext(str), "Plain") >>

\* result is Ok(("", fragment)) with a fragment of this kind and value.
IsOkFragment(result, kind, value) ==
    /\ result.ok
    /\ result.rest = <<>>
    /\ result.output.kind = kind
    /\ result.output.value = value

\* C17: parse_element_markdown_inline returns the result of the first parser
\* that succeeds in the order italic, bold, bold_italic, code, image, link,
\* checkbox, plaintext, and fails only when all eight fail; *t* yields
\* Italic(t), **t** yields Bold(t) and never Italic, a t between back ticks
\* yields InlineCode(t), ![a](u) yields Image and [a](u) yields Link, for
\* non-empty delimiter-free t, a, u.
C17_InlineDispatchOrder ==
    InlineCalled =>
        LET str == call.input
            result == call.result
            results == ElementResults(str)
            succeeded == { i \in DOMAIN results : results[i].ok }
            Case(open, close, kind) ==
                (Wrapped(str, open, close) /\ DelimiterFree(BodyOf(str, open, close)))
                    => IsOkFragment(result, kind, BodyOf(str, open, close))
            LinkCase(open, kind) ==
                starts_with(str, open) =>
                    \A text, url \in Strings({"x", " "}, MaxBodyLen) \ {<<>>} :
                        str = open \o text \o <<"]", "(">> \o url \o <<")">>
                            => IsOkFragment(result, kind, [text |-> text, url |-> url])
        IN  /\ result.ok <=> succeeded # {}
            /\ result.ok =>
                  LET first == CHOOSE i \in succeeded : \A j \in succeeded : i <= j
                  IN  /\ result.rest = results[first].rest
                      /\ result.output.kind = results[first].output.kind
                      /\ result.output.value = results[first].output.value
            /\ Case(<<"*">>, <<"*">>, "Italic")
            /\ Case(<<"*", "*">>, <<"*", "*">>, "Bold")
            /\ Case(<<"U+0060">>, <<"U+0060">>, "InlineCode")
            /\ LinkCase(<<"!", "[">>, "Image")
            /\ LinkCase(<<"[">>, "Link")

\* "[x](x)" was parsed as a Link, the parser before the checkbox that also
\* accepts it.
C17_Witness ==
    /\ InlineCalled
    /\ call.input = <<"[", "x", "]", "(", "x", ")">>
    /\ call.result.ok
    /\ call.result.output.kind = "Link"
    /\ parse_element_checkbox(call.input).ok

\* The source texts of the fragments parsed so far, concatenated.
ParsedSource == Flatten([i \in DOMAIN fragments |-> fragments[i].source])

\* C18: applying parse_element_markdown_inline repeatedly to the remaining
\* input partitions a single-line input into fragments whose source text
\* concatenates back to the original string, and the iteration never gets
\* stuck with unconsumed input.
C18_InlinePartitionsInput ==
    /\ ParsedSource \o remainder = input
    /\ (InlineCalled /\ "\n" \notin Range(input) /\ remainder # <<>>)
          => call.result.ok

\* str is body between two occurrences of the character delimiter repeated
\* count times, the body possibly empty.
Between(str, delimiter, count) ==
    /\ Len(str) >= 2 * count
    /\ \A i \in 1..count : str[i] = delimiter /\ str[Len(str) - i + 1] = delimiter

Inner(str, count) == SubSeq(str, count + 1, Len(str) - count)

IsOkStr(result, rest, output) ==
    result.ok /\ result.rest = rest /\ result.output = output

\* C19 as stated: for any string t not containing "*",
\* parse_element_italic("*" + t + "*") returns Ok(("", t)), and for any t not
\* containing "_", parse_element_italic("_" + t + "_") returns Ok(("", t)).
C19_ItalicAcceptsAnyBody ==
    call.name = "parse_element_italic" =>
        \A delimiter \in {"*", "_"} :
            (Between(call.input, delimiter, 1)
                /\ delimiter \notin Range(Inner(call.input, 1)))
                => IsOkStr(call.result, <<>>, Inner(call.input, 1))

\* C19: for any non-empty string t not containing "*",
\* parse_element_italic("*" + t + "*") returns Ok(("", t)), and for any
\* non-empty t not containing "_", parse_element_italic("_" + t + "_")
\* returns Ok(("", t)).
C19_ItalicAcceptsNonEmptyBody ==
    call.name = "parse_element_italic" =>
        \A delimiter \in {"*", "_"} :
            (Between(call.input, delimiter, 1)
                /\ Inner(call.input, 1) # <<>>
                /\ delimiter \notin Range(Inner(call.input, 1)))
                => IsOkStr(call.result, <<>>, Inner(call.input, 1))

\* parse_element_italic accepted "*x_*", whose body holds the other
\* delimiter.
C19_Witness ==
    /\ call.name = "parse_element_italic"
    /\ call.input = <<"*", "x", "_", "*">>
    /\ IsOkStr(call.result, <<>>, <<"x", "_">>)

\* The delimited parsers whose body excludes the characters of the
\* delimiter.
EmphasisParsers ==
    { "parse_element_italic", "parse_element_bold", "parse_element_bold_italic",
      "parse_element_code" }

\* The body an emphasis parser returns holds no character of the delimiter
\* the input opens with.
BodyFreeOfDelimiter ==
    (call.name \in EmphasisParsers /\ call.result.ok)
        => Head(call.input) \notin Range(call.result.output)

\* parse_element_bold returns Ok(("", t)) on "**" + t + "**" for every t of
\* length >= 1 without "*", and likewise on "__" + t + "__".
BoldAcceptsCleanBody ==
    call.name = "parse_element_bold" =>
        \A delimiter \in {"*", "_"} :
            (Between(call.input, delimiter, 2)
                /\ Inner(call.input, 2) # <<>>
                /\ delimiter \notin Range(Inner(call.input, 2)))
                => IsOkStr(call.result, <<>>, Inner(call.input, 2))

\* C20 as stated: parse_element_bold accepts "**" + t + "**" with result
\* Ok(("", t)) for every t of length >= 1 without "*" (likewise "__"),
\* rejects any input whose body contains the delimiter character before the
\* closing delimiter, and the body italic, bold, bold_italic and code return
\* never contains a character of its own delimiter.
C20_BoldRejectsDelimiterInBody ==
    /\ BoldAcceptsCleanBody
    /\ call.name = "parse_element_bold" =>
          \A delimiter \in {"*", "_"} :
              (Between(call.input, delimiter, 2)
                  /\ delimiter \in Range(Inner(call.input, 2)))
                  => ~call.result.ok
    /\ BodyFreeOfDelimiter

\* C20: parse_element_bold accepts "**" + t + "**" with result Ok(("", t))
\* for every t of length >= 1 without "*" (likewise "__"), rejects any input
\* in which the first delimiter character after the opening delimiter does
\* not begin the closing delimiter, and the body italic, bold, bold_italic
\* and code return never contains a character of its own delimiter.
C20_BoldRejectsLoneDelimiterInBody ==
    /\ BoldAcceptsCleanBody
    /\ call.name = "parse_element_bold" =>
          \A delimiter \in {"*", "_"} :
              LET after == SubSeq(call.input, 3, Len(call.input))
                  at == { i \in DOMAIN after : after[i] = delimiter }
                  first == CHOOSE i \in at : \A j \in at : i <= j
              IN  (Len(call.input) >= 2
                      /\ call.input[1] = delimiter /\ call.input[2] = delimiter
                      /\ at # {}
                      /\ ~starts_with(SubSeq(after, first, Len(after)),
                                      <<delimiter, delimiter>>))
                      => ~call.result.ok
    /\ BodyFreeOfDelimiter

\* parse_element_bold rejected "**x*x**".
C20_Witness ==
    /\ call.name = "parse_element_bold"
    /\ call.input = <<"*", "*", "x", "*", "x", "*", "*">>
    /\ ~call.result.ok

\* The opening delimiters of a delimited element parser, in the order of its
\* alternatives.
Openings(name) ==
    CASE name = "parse_element_italic" -> <<ITALIC_1, ITALIC_2>>
      [] name = "parse_element_bold" -> <<BOLD_1, BOLD_2>>
      [] name = "parse_element_bold_italic" -> <<BITALIC_1, BITALIC_2>>
      [] name = "parse_element_code" -> <<BACK_TICK>>
      [] name = "parse_element_link" -> <<LEFT_BRACKET>>
      [] name = "parse_element_image" -> <<LEFT_IMAGE>>
      [] OTHER -> <<>>

\* The delimiter that closes a body opened with open.
ClosingOf(open) ==
    IF open \in {LEFT_BRACKET, LEFT_IMAGE} THEN RIGHT_BRACKET ELSE open

\* The call is of a delimited parser on its i-th opening delimiter
\* immediately followed by the closing delimiter, and whatever follows.
EmptyBodyCall(i) ==
    /\ i \in DOMAIN Openings(call.name)
    /\ starts_with(call.input, Openings(call.name)[i] \o ClosingOf(Openings(call.name)[i]))

IsErr(result, error_input, code) ==
    ~result.ok /\ result.input = error_input /\ result.code = code

\* C21 as stated: a delimited fragment with an empty body (the opening
\* delimiter immediately followed by the closing delimiter) fails with error
\* kind IsNot.
C21_EmptyBodyIsNot ==
    \A i \in 1..2 :
        (EmptyBodyCall(i) /\ call.input = Openings(call.name)[i] \o ClosingOf(Openings(call.name)[i]))
            => (~call.result.ok /\ call.result.code = "IsNot")

\* C21: a delimited fragment with an empty body fails. The error is that of
\* the last alternative of the parser: IsNot, reported at the closing
\* delimiter, when the opening delimiter is the one of the last alternative
\* (the back tick of code, "[" of link, "![" of image, the "_" variants of
\* italic, bold and bold_italic), and Tag, reported at the whole input, for
\* the "*" variants of italic, bold and bold_italic.
C21_EmptyBodyFails ==
    \A i \in 1..2 :
        EmptyBodyCall(i) =>
            LET opens == Openings(call.name)
            IN  IF i = Len(opens)
                THEN IsErr(call.result, drop(call.input, Len(opens[i])), "IsNot")
                ELSE IsErr(call.result, call.input, "Tag")

\* parse_element_code failed with IsNot on two back ticks.
C21_Witness ==
    /\ call.name = "parse_element_code"
    /\ call.input = BACK_TICK \o BACK_TICK
    /\ IsErr(call.result, BACK_TICK, "IsNot")

\* sub occurs in str.
Contains(str, sub) ==
    \E i \in 1..(Len(str) - Len(sub) + 1) : SubSeq(str, i, i + Len(sub) - 1) = sub

\* The part of str before its first newline.
LineOf(str) ==
    LET at == { i \in DOMAIN str : str[i] = "\n" }
    IN  IF at = {} THEN str
        ELSE SubSeq(str, 1, (CHOOSE i \in at : \A j \in at : i <= j) - 1)

DelimitedParsers ==
    { "parse_element_italic", "parse_element_bold", "parse_element_bold_italic",
      "parse_element_code", "parse_element_link", "parse_element_image" }

\* The call is of a delimited parser on a text that starts with none of
\* its opening delimiters.
NotOpenedCall ==
    /\ call.name \in DelimitedParsers
    /\ \A i \in DOMAIN Openings(call.name) : ~starts_with(call.input, Openings(call.name)[i])

\* C22 as stated: for every delimited fragment parser, an input that starts
\* with the opening delimiter but has no closing delimiter before the end of
\* the line fails with error kind Tag; an input that does not start with the
\* opening delimiter also fails with Tag and reports the whole original input
\* as remaining.
C22_UnclosedIsTag ==
    /\ \A i \in 1..2 :
          (/\ i \in DOMAIN Openings(call.name)
           /\ starts_with(call.input, Openings(call.name)[i])
           /\ ~Contains(drop(LineOf(call.input), Len(Openings(call.name)[i])),
                        ClosingOf(Openings(call.name)[i])))
              => (~call.result.ok /\ call.result.code = "Tag")
    /\ NotOpenedCall => IsErr(call.result, call.input, "Tag")

\* C22: for every delimited fragment parser, an input that starts with the
\* opening delimiter and has no closing delimiter anywhere after it fails;
\* with error kind Tag when at least one character that is not of the
\* delimiter follows the opening delimiter, or when the delimiter is not
\* the one of the last alternative of the parser; with IsNot otherwise
\* (nothing, or a delimiter character, follows the opening delimiter of the
\* last alternative). An input that does not start with the opening
\* delimiter fails with Tag and reports the whole original input as
\* remaining.
C22_UnclosedFails ==
    /\ \A i \in 1..2 :
          LET opens == Openings(call.name)
              after == drop(call.input, Len(opens[i]))
          IN  (/\ i \in DOMAIN opens
               /\ starts_with(call.input, opens[i])
               /\ ~Contains(after, ClosingOf(opens[i])))
                  => /\ ~call.result.ok
                     /\ call.result.code
                           = IF \/ i < Len(opens)
                                \/ (after # <<>> /\ Head(after) \notin Range(ClosingOf(opens[i])))
                             THEN "Tag" ELSE "IsNot"
    /\ NotOpenedCall => IsErr(call.result, call.input, "Tag")

\* parse_element_code failed with Tag, at the end of the text, on a back
\* tick followed by "x" and no closing back tick.
C22_Witness ==
    /\ call.name = "parse_element_code"
    /\ call.input = BACK_TICK \o <<"x">>
    /\ IsErr(call.result, <<>>, "Tag")

\* The start delimiters and the newline, as texts.
StartDelimiters ==
    { <<"*", "*", "*">>, <<"_", "_", "_">>, <<"*", "*">>, <<"_", "_">>, <<"*">>, <<"_">>,
      <<"U+0060">>, <<"[">>, <<"!", "[">>, <<"\n">> }

\* Position i of str begins a start delimiter or a newline.
BeginsDelimiter(str, i) ==
    \E delimiter \in StartDelimiters : starts_with(drop(str, i - 1), delimiter)

\* The first position of str that begins a start delimiter or a newline,
\* and the position after the end of str when there is none.
FirstDelimiter(str) ==
    LET at == { i \in DOMAIN str : BeginsDelimiter(str, i) }
    IN  IF at = {} THEN Len(str) + 1 ELSE CHOOSE i \in at : \A j \in at : i <= j

\* C23: parse_element_plaintext returns Ok(("", s)) for every non-empty s
\* containing no delimiter characters, and in general returns the longest
\* non-empty prefix in which no position begins a start delimiter or a
\* newline, leaving the remaining input starting exactly at that delimiter
\* (a "!" not followed by "[" is consumed).
C23_PlaintextLongestPrefix ==
    call.name = "parse_element_plaintext" =>
        LET str == call.input
            stop == FirstDelimiter(str)
        IN  /\ (str # <<>> /\ \A i \in DOMAIN str : \A delimiter \in StartDelimiters : str[i] \notin Range(delimiter))
                  => IsOkStr(call.result, <<>>, str)
            /\ call.result.ok <=> stop > 1
            /\ stop > 1 => IsOkStr(call.result, drop(str, stop - 1), SubSeq(str, 1, stop - 1))
            /\ \A i \in DOMAIN str :
                  (str[i] = "!" /\ i < stop /\ ~starts_with(drop(str, i), <<"[">>))
                      => (call.result.ok /\ Len(call.result.output) >= i)

\* parse_element_plaintext stopped "x![" before the start of the image.
C23_Witness ==
    /\ call.name = "parse_element_plaintext"
    /\ call.input = <<"x", "!", "[">>
    /\ IsOkStr(call.result, <<"!", "[">>, <<"x">>)

\* C24: parse_element_plaintext fails with error kind Eof on the empty input
\* and with error kind Not, reporting the whole input as remaining, whenever
\* the first position of the input begins a start delimiter or a newline;
\* parse_element_markdown_inline reports the same Eof on "" and Not on "\n".
C24_PlaintextErrors ==
    /\ call.name = "parse_element_plaintext" =>
          /\ call.input = <<>> => IsErr(call.result, <<>>, "Eof")
          /\ BeginsDelimiter(call.input, 1) => IsErr(call.result, call.input, "Not")
          /\ ~call.result.ok => (call.input = <<>> \/ BeginsDelimiter(call.input, 1))
    /\ InlineCalled =>
          /\ call.input = <<>> => IsErr(call.result, <<>>, "Eof")
          /\ call.input = <<"\n">> => IsErr(call.result, <<"\n">>, "Not")

\* parse_element_plaintext failed with Not on a text that starts with "![".
C24_Witness ==
    /\ call.name = "parse_element_plaintext"
    /\ starts_with(call.input, <<"!", "[">>)
    /\ Len(call.input) > 2
    /\ IsErr(call.result, call.input, "Not")

\* The text a and the url b of a call of parse_element_link or
\* parse_element_image on open + a + "](" + b + ")", a without "]" and b
\* without ")"; the empty record when the input is not of that form.
LinkParts ==
    LET str == call.input
        open == Openings(call.name)[1]
        after == drop(str, Len(open))
        at == { i \in DOMAIN after : after[i] = "]" }
        close == CHOOSE i \in at : \A j \in at : i <= j
        b == SubSeq(after, close + 2, Len(after) - 1)
    IN  IF /\ call.name \in {"parse_element_link", "parse_element_image"}
           /\ starts_with(str, open)
           /\ at # {}
           /\ Len(after) >= close + 2
           /\ after[close + 1] = "("
           /\ after[Len(after)] = ")"
           /\ ")" \notin Range(b)
        THEN [a |-> SubSeq(after, 1, close - 1), b |-> b]
        ELSE [none |-> TRUE]

\* C25 as stated: for any a not containing "]" and any b not containing ")",
\* parse_element_link("[" + a + "](" + b + ")") returns
\* Ok(("", HyperlinkData{text: a, url: b})), and
\* parse_element_image("![" + a + "](" + b + ")") returns the same
\* HyperlinkData.
C25_LinkAcceptsAnyParts ==
    LinkParts # [none |-> TRUE]
        => IsOkStr(call.result, <<>>, [text |-> LinkParts.a, url |-> LinkParts.b])

\* C25: for any non-empty a not containing "]" and any non-empty b not
\* containing ")", parse_element_link("[" + a + "](" + b + ")") returns
\* Ok(("", HyperlinkData{text: a, url: b})), and
\* parse_element_image("![" + a + "](" + b + ")") returns the same
\* HyperlinkData; with an empty a or an empty b both fail with IsNot.
C25_LinkAcceptsNonEmptyParts ==
    LinkParts # [none |-> TRUE]
        => IF LinkParts.a # <<>> /\ LinkParts.b # <<>>
           THEN IsOkStr(call.result, <<>>, [text |-> LinkParts.a, url |-> LinkParts.b])
           ELSE ~call.result.ok /\ call.result.code = "IsNot"

\* parse_element_image returned the text ")" and the url "]x" of
\* "![)](]x)".
C25_Witness ==
    /\ call.name = "parse_element_image"
    /\ call.input = <<"!", "[", ")", "]", "(", "]", "x", ")">>
    /\ IsOkStr(call.result, <<>>, [text |-> <<")">>, url |-> <<"]", "x">>])

\* rest is what is left of str after at least one character.
ProperSuffix(rest, str) ==
    Len(rest) < Len(str) /\ rest = drop(str, Len(str) - Len(rest))

\* The calls of parse_element_markdown_inline made so far on this text: one
\* for each fragment, and the one that failed.
InlineSteps ==
    Len(fragments) + (IF InlineCalled /\ ~call.result.ok THEN 1 ELSE 0)

\* C27: every successful result of parse_element_markdown_inline and of
\* each fragment parser consumes at least one character and returns a
\* remaining input that is a proper suffix of the input, so re-applying the
\* dispatcher to the remaining input of a non-empty text ends, with
\* completion or with an error, after at most len(input) calls.
C27_InlineProgress ==
    /\ (call.name # "new" /\ call.result.ok) => ProperSuffix(call.result.rest, call.input)
    /\ \A name \in ElementParsers :
          parse_element(name, remainder).ok
              => ProperSuffix(parse_element(name, remainder).rest, remainder)
    /\ ProperSuffix(remainder, input) \/ remainder = input
    /\ Len(fragments) <= Len(input) - Len(remainder)
    /\ input # <<>> => InlineSteps <= Len(input)

\* "[x](x))" was taken apart in two calls, a link and the plain text ")".
C27_Witness ==
    /\ InlineCalled
    /\ input = <<"[", "x", "]", "(", "x", ")", ")">>
    /\ remainder = <<>>
    /\ Len(fragments) = 2
    /\ fragments[2].source = <<")">>

\* The text the k-th painted line prints: the texts of its paints, one
\* after the other.
LineText(k) ==
    LET paints == SelectSeq(LineOps(k), IsPaint)
    IN  Flatten([i \in DOMAIN paints |-> paints[i].text])

\* The painted lines are the buffer lines scroll_offset.row_index + i at
\* relative position (0, i), i = 0, 1, 2, ... in increasing order, up to the
\* end of the buffer or to i = max_rows; each starts with its own
\* MoveCursorPositionRelTo and ends with ResetColor.
ContentRows ==
    LET scroll == editor_buffer.scroll_offset
        box == editor_engine.current_box
        painted == Cardinality(MoveIndexes)
    IN  /\ painted = Min(Len(editor_buffer.lines) - scroll.row_index, Viewport.row_count + 1)
        /\ ContentOps # <<>> => IsMove(ContentOps[1])
        /\ \A k \in 1..painted :
              /\ ContentOps[NthMove(k)]
                    = MoveCursorPositionRelTo(box.style_adjusted_origin_pos, position(0, k - 1))
              /\ LineText(k)
                    = GraphemesFrom(editor_buffer.lines[scroll.row_index + k],
                                    scroll.col_index, Viewport.col_count)
              /\ LineOps(k) # <<>>
              /\ LineOps(k)[Len(LineOps(k))] = ResetColor

\* C26 as stated: content rendering paints buffer line
\* scroll_offset.row_index + i at relative position (0, i) of the box origin,
\* for i = 0, 1, 2, ... in increasing order, stopping at the end of the
\* buffer or as soon as i > max_rows; no line with index below
\* scroll_offset.row_index is painted, each painted line starts with its own
\* MoveCursorPositionRelTo and ends with ResetColor, and a scroll offset at
\* or past the last line paints nothing.
C26_ScrollAtLastLinePaintsNothing ==
    (RenderedNow /\ ~is_empty(editor_buffer)) =>
        /\ ContentRows
        /\ editor_buffer.scroll_offset.row_index >= Len(editor_buffer.lines) - 1
              => ContentOps = <<>>

\* C26: content rendering paints buffer line scroll_offset.row_index + i at
\* relative position (0, i) of the box origin, for i = 0, 1, 2, ... in
\* increasing order, stopping at the end of the buffer or as soon as
\* i > max_rows; no line with index below scroll_offset.row_index is
\* painted, each painted line starts with its own MoveCursorPositionRelTo
\* and ends with ResetColor, and a scroll offset at the last line paints
\* that line alone, at relative position (0, 0).
C26_ContentRows ==
    (RenderedNow /\ ~is_empty(editor_buffer)) =>
        /\ ContentRows
        /\ editor_buffer.scroll_offset.row_index = Len(editor_buffer.lines) - 1
              => /\ Cardinality(MoveIndexes) = 1
                 /\ LineText(1)
                       = GraphemesFrom(editor_buffer.lines[Len(editor_buffer.lines)],
                                       editor_buffer.scroll_offset.col_index,
                                       Viewport.col_count)

\* With the scroll offset at the last of three lines, "ab" alone was
\* painted, at relative position (0, 0).
C26_Witness ==
    /\ RenderedNow
    /\ editor_buffer.lines = <<Hello, Digits, Ab>>
    /\ editor_buffer.scroll_offset = position(0, 2)
    /\ Viewport = size(10, 2)
    /\ Cardinality(MoveIndexes) = 1
    /\ ContentOps[1]
          = MoveCursorPositionRelTo(editor_engine.current_box.style_adjusted_origin_pos,
                                    position(0, 0))
    /\ LineText(1) = Ab

\* The characters a sequence of ops displays: the texts of its paints, one
\* after the other.
PaintedText(ops) ==
    LET paints == SelectSeq(ops, IsPaint)
    IN  Flatten([i \in DOMAIN paints |-> paints[i].text])

\* C28: for the same line, scroll offset and viewport width the highlighted
\* path and the fallback path display the same characters: the texts of the
\* paints emitted for the clipped styled spans, concatenated, are the single
\* text the fallback path prints, the line clipped to
\* [scroll.col, scroll.col + max_cols), the spans of the highlighter
\* concatenating to the line; only the styles and the number of ops differ,
\* each span being ApplyColors, a paint, ResetColor.
C28_SameCharacters ==
    (RenderedNow /\ ~is_empty(editor_buffer)) =>
        \A k \in 1..Cardinality(MoveIndexes) :
            LET scroll == editor_buffer.scroll_offset
                line == editor_buffer.lines[scroll.row_index + k]
                spans == highlight_line(line, {}).spans
                highlighted ==
                    render_line_with_syntax_highlight(spans, editor_buffer, Viewport.col_count,
                                                      <<>>, editor_engine)
                fallback ==
                    render_line_no_syntax_highlight(line, editor_buffer, Viewport.col_count,
                                                    <<>>, editor_engine)
            IN  /\ Flatten([i \in DOMAIN spans |-> spans[i].text]) = line
                /\ LineOps(k) \in {Append(highlighted, ResetColor), Append(fallback, ResetColor)}
                /\ PaintedText(highlighted) = PaintedText(fallback)
                /\ Len(SelectSeq(fallback, IsPaint)) = 1
                /\ PaintedText(fallback)
                      = GraphemesFrom(line, scroll.col_index, Viewport.col_count)
                /\ Len(highlighted) = 3 * Len(SelectSeq(highlighted, IsPaint))
                /\ \A i \in 1..Len(SelectSeq(highlighted, IsPaint)) :
                      /\ IsPaint(highlighted[3 * i - 1])
                      /\ highlighted[3 * i - 2] = ApplyColors(highlighted[3 * i - 1].style)
                      /\ highlighted[3 * i] = ResetColor

\* "hello" in a window of four columns: the highlighted path printed "h"
\* and "ell", the characters the fallback path prints at once.
C28_Witness ==
    /\ HighlightedRender
    /\ editor_buffer.lines = <<Hello>>
    /\ editor_buffer.scroll_offset = position(0, 0)
    /\ Viewport.col_count = 4
    /\ Len(LinePaints(1)) = 2
    /\ LineText(1) = <<"h", "e", "l", "l">>
    /\ LineText(1)
          = PaintedText(render_line_no_syntax_highlight(Hello, editor_buffer, 4, <<>>,
                                                        editor_engine))

\* The threads that are executing the wrapped function.
Executing == { t \in Threads : fn_wrapper.threads[t].at = "call" }

WaitingInvoke(t) ==
    fn_wrapper.threads[t] = [at |-> "wait", via |-> "invoke", guard |-> "write"]

RunningInvoke(t) ==
    fn_wrapper.threads[t] = [at |-> "call", via |-> "invoke", guard |-> "write"]

LockFree == fn_wrapper.lock.writer = 0 /\ fn_wrapper.lock.readers = {}

LoopEnded == launcher.pc # "loop"

\* The selections from_str takes for the Exit command.
ExitSelections == {"x", "X", "exit", "Exit"}

\* The selections from_str takes for one of the examples.
ExampleSelections == {"0", "1", "2", "3", "4", "5"}

\* The event is one the claim ends the loop on: Eof, Interrupted, an error
\* of the readline source, or a Line whose example returned an error, the
\* Exit command included.
EndsLoop(event) ==
    \/ event.event \in {"Eof", "Interrupted", "Err"}
    \/ /\ event.event = "Line"
       /\ \/ event.selection \in ExitSelections
          \/ event.selection \in ExampleSelections /\ event.run_app = "err"

\* Raw mode could not be enabled again after the Line event.
RawModeFailed(event) ==
    event.event = "Line" /\ event.enable_raw_mode = "err"

LastEvent == launcher.events[Len(launcher.events)]

\* C30 as stated: the read loop ends exactly when the readline source yields
\* Eof, Interrupted or an error, or when the selected example returns an
\* error, the Exit command included; a Resized event or an unrecognized
\* selection never ends the loop, and after every Line event that does not
\* end the loop raw mode is enabled again before the next event is awaited.
C30_LoopEndsOnlyOnBreak ==
    /\ LoopEnded <=> (launcher.events # <<>> /\ EndsLoop(LastEvent))
    /\ \A i \in 1..(Len(launcher.events) - 1) : ~EndsLoop(launcher.events[i])
    /\ (launcher.events # <<>> /\ LastEvent.event = "Resized") => ~LoopEnded
    /\ (launcher.events # <<>> /\ LastEvent.event = "Line"
           /\ LastEvent.selection \notin ExitSelections \cup ExampleSelections)
          => ~LoopEnded
    /\ (launcher.events # <<>> /\ LastEvent.event = "Line" /\ ~LoopEnded)
          => launcher.raw_mode

\* C30: the read loop ends exactly when the readline source yields Eof,
\* Interrupted or an error, when the selected example returns an error, the
\* Exit command included, or when enable_raw_mode fails after a Line event,
\* main then returning that error; a Resized event never ends the loop, an
\* unrecognized selection ends it only through a failure of
\* enable_raw_mode, and after every Line event that does not end the loop
\* raw mode is enabled again before the next event is awaited.
C30_LoopEndsOnBreakOrRawModeError ==
    /\ LoopEnded <=> (launcher.events # <<>>
                         /\ (EndsLoop(LastEvent) \/ RawModeFailed(LastEvent)))
    /\ launcher.pc = "err" <=> (launcher.events # <<>> /\ RawModeFailed(LastEvent))
    /\ \A i \in 1..(Len(launcher.events) - 1) :
          ~EndsLoop(launcher.events[i]) /\ ~RawModeFailed(launcher.events[i])
    /\ \A i \in DOMAIN launcher.events :
          EndsLoop(launcher.events[i]) => ~RawModeFailed(launcher.events[i])
    /\ (launcher.events # <<>> /\ LastEvent.event = "Resized") => ~LoopEnded
    /\ (launcher.events # <<>> /\ LastEvent.event = "Line"
           /\ LastEvent.selection \notin ExitSelections \cup ExampleSelections)
          => (LoopEnded <=> RawModeFailed(LastEvent))
    /\ (launcher.events # <<>> /\ LastEvent.event = "Line" /\ ~LoopEnded)
          => launcher.raw_mode

\* The editor example ran and the loop went on in raw mode; then an
\* unrecognized selection was typed, enable_raw_mode failed and main
\* returned its error.
C30_Witness ==
    /\ launcher.pc = "err"
    /\ Len(launcher.events) = 2
    /\ launcher.events[1]
          = [event |-> "Line", selection |-> "3", run_app |-> "ok", enable_raw_mode |-> "ok"]
    /\ launcher.events[2]
          = [event |-> "Line", selection |-> "9", run_app |-> "none", enable_raw_mode |-> "err"]

====
